---- MODULE Spec2Model ----
(***************************************************************************)
(* Model of the derived-structure engine of voronoi-and-stuff              *)
(* (src/src/lib/geometry-algorithms.ts, src/src/lib/math-utils.ts) and of  *)
(* the point bookkeeping of the VoronoiCanvas component                    *)
(* (src/src/lib/types.ts).                                                 *)
(*                                                                         *)
(* Numbers.  A JavaScript number is modelled exactly (no rounding) as a    *)
(* polynomial in EPSILON = 1e-6 with integer coefficients: the sequence    *)
(* <<c0, c1, c2, ...>> stands for c0 + c1*1e-6 + c2*1e-12 + ...  Every     *)
(* coefficient the model produces stays far below 10^6 in magnitude, so    *)
(* the sign of a number is the sign of its first non-zero coefficient.     *)
(* Square roots (Math.hypot) are never evaluated: a length is carried by   *)
(* its square and compared through it (the square root is monotone).       *)
(* Overflow of a double is kept in distance(): a coordinate difference or  *)
(* a length above MaxValue (the stand-in for Number.MAX_VALUE) is          *)
(* Infinity.  Rounding is modelled apart, for the one place where a        *)
(* computed value is tested against exactly 0 (triangleAreaRounded).       *)
(* The interaction layer works on whole pixels (plain integers).           *)
(*                                                                         *)
(* Arrays are 0-based as in the source: the point with index i is          *)
(* points[i + 1] of the TLA+ sequence, and every edge and triangle holds   *)
(* 0-based indices.                                                        *)
(***************************************************************************)
EXTENDS Integers, Sequences, FiniteSets, TLC

VARIABLES points, delaunay, alpha, mode, candidateEdges, called, out, ui, session

vars == <<points, delaunay, alpha, mode, candidateEdges, called, out, ui, session>>

(***************************************************************************)
(* Bounds of the model                                                     *)
(***************************************************************************)
\* largest whole coordinate of the input grid
MaxCoord == 1
\* longest point sequence handed to the minimum spanning tree builder
MaxMstPoints == 3
\* largest finite magnitude of a number (stand-in for Number.MAX_VALUE)
MaxValue == 1000

(***************************************************************************)
(* Exact numbers                                                           *)
(***************************************************************************)
Max2(a, b) == IF a >= b THEN a ELSE b
Min2(a, b) == IF a <= b THEN a ELSE b

\* the function f with every value computed (the model checker otherwise
\* re-evaluates the defining expression at each application)
Strict(f) == IF f = <<>> THEN <<>> ELSE f

Num(n) == <<n>>
Coef(a, i) == IF i <= Len(a) THEN a[i] ELSE 0
NAdd(a, b) == Strict([i \in 1..Max2(Len(a), Len(b)) |-> Coef(a, i) + Coef(b, i)])
NNeg(a) == Strict([i \in 1..Len(a) |-> 0 - a[i]])
NSub(a, b) == NAdd(a, NNeg(b))

RECURSIVE ConvSum(_, _, _, _)
ConvSum(a, b, k, i) ==
  IF i > Len(a) THEN 0
  ELSE (IF k + 1 - i >= 1 /\ k + 1 - i <= Len(b) THEN a[i] * b[k + 1 - i] ELSE 0)
       + ConvSum(a, b, k, i + 1)

NMul(a, b) == Strict([k \in 1..(Len(a) + Len(b) - 1) |-> ConvSum(a, b, k, 1)])
NScale(c, a) == Strict([i \in 1..Len(a) |-> c * a[i]])

RECURSIVE SignFrom(_, _)
SignFrom(a, i) ==
  IF i > Len(a) THEN 0
  ELSE IF a[i] > 0 THEN 1
  ELSE IF a[i] < 0 THEN 0 - 1
  ELSE SignFrom(a, i + 1)

NSign(a) == SignFrom(a, 1)
NLt(a, b) == NSign(NSub(a, b)) < 0
NLe(a, b) == NSign(NSub(a, b)) <= 0
NEq(a, b) == NSign(NSub(a, b)) = 0
NAbs(a) == IF NSign(a) < 0 THEN NNeg(a) ELSE a

\* EPSILON = 1e-6
EPSILON == <<0, 1>>

(***************************************************************************)
(* Lengths: Math.hypot and Number.POSITIVE_INFINITY                        *)
(***************************************************************************)
POSITIVE_INFINITY == [inf |-> TRUE, sq |-> Num(0)]
Finite(sq) == [inf |-> FALSE, sq |-> sq]

\* |n| > MaxValue: the double overflows
Overflows(n) == NLt(Num(MaxValue), NAbs(n))

\* Math.hypot(dx, dy), by its square
hypot(dx, dy) ==
  LET sq == NAdd(NMul(dx, dx), NMul(dy, dy))
  IN IF Overflows(dx) \/ Overflows(dy) \/ NLt(Num(MaxValue * MaxValue), sq)
     THEN POSITIVE_INFINITY
     ELSE Finite(sq)

\* d1 < d2 on lengths
DLt(d1, d2) ==
  IF d1.inf THEN FALSE
  ELSE IF d2.inf THEN TRUE
  ELSE NLt(d1.sq, d2.sq)

DLe(d1, d2) == ~DLt(d2, d1)

distance(a, b) == hypot(NSub(a.x, b.x), NSub(a.y, b.y))

\* dx * dx + dy * dy: a value above MaxValue is Infinity (sq holds the value)
distanceSquared(a, b) ==
  LET dx == NSub(a.x, b.x)
      dy == NSub(a.y, b.y)
      sum == NAdd(NMul(dx, dx), NMul(dy, dy))
  IN IF Overflows(dx) \/ Overflows(dy) \/ NLt(Num(MaxValue), sum)
     THEN POSITIVE_INFINITY
     ELSE Finite(sum)

PointAt(pts, i) == pts[i + 1]

(***************************************************************************)
(* computeMinimumSpanningTreeEdges: Prim's algorithm                       *)
(***************************************************************************)
MstStart(pts) ==
  LET count == Len(pts)
  IN [visited |-> Strict([i \in 0..(count - 1) |-> i = 0]),
      distances |-> Strict([i \in 0..(count - 1) |->
                              IF i = 0 THEN POSITIVE_INFINITY
                              ELSE distance(PointAt(pts, 0), PointAt(pts, i))]),
      parent |-> Strict([i \in 0..(count - 1) |-> IF i = 0 THEN 0 - 1 ELSE 0]),
      edges |-> <<>>,
      broke |-> FALSE]

\* MstScan without the skip of visited points
RECURSIVE MstScanNoSkip(_, _, _, _, _)
MstScanNoSkip(st, count, j, bestIndex, bestDistance) ==
  IF j >= count THEN bestIndex
  ELSE IF DLt(st.distances[j], bestDistance)
       THEN MstScanNoSkip(st, count, j + 1, j, st.distances[j])
       ELSE MstScanNoSkip(st, count, j + 1, bestIndex, bestDistance)

\* the scan for the nearest unvisited point: the first minimum wins
RECURSIVE MstScan(_, _, _, _, _)
MstScan(st, count, j, bestIndex, bestDistance) ==
  IF j >= count THEN bestIndex
  ELSE IF st.visited[j] THEN MstScan(st, count, j + 1, bestIndex, bestDistance)
  ELSE IF DLt(st.distances[j], bestDistance)
       THEN MstScan(st, count, j + 1, j, st.distances[j])
       ELSE MstScan(st, count, j + 1, bestIndex, bestDistance)

\* MstVisit without the relaxation step (distances and parents never updated)
MstVisitNoRelax(pts, st, bestIndex) ==
  LET parentIndex == st.parent[bestIndex]
  IN [st EXCEPT !.visited = [st.visited EXCEPT ![bestIndex] = TRUE],
                !.edges = IF parentIndex >= 0
                          THEN Append(st.edges, <<Min2(bestIndex, parentIndex),
                                                  Max2(bestIndex, parentIndex)>>)
                          ELSE st.edges]

\* one iteration once bestIndex is found: mark, emit the edge, relax
MstVisit(pts, st, bestIndex) ==
  LET count == Len(pts)
      visited == [st.visited EXCEPT ![bestIndex] = TRUE]
      parentIndex == st.parent[bestIndex]
      relaxed == Strict([j \in 0..(count - 1) |->
                    IF visited[j] THEN <<st.distances[j], st.parent[j]>>
                    ELSE LET d == distance(PointAt(pts, bestIndex), PointAt(pts, j))
                         IN IF DLt(d, st.distances[j])
                            THEN <<d, bestIndex>>
                            ELSE <<st.distances[j], st.parent[j]>>])
  IN [visited |-> visited,
      distances |-> Strict([j \in 0..(count - 1) |-> relaxed[j][1]]),
      parent |-> Strict([j \in 0..(count - 1) |-> relaxed[j][2]]),
      edges |-> IF parentIndex >= 0
                THEN Append(st.edges, <<Min2(bestIndex, parentIndex),
                                        Max2(bestIndex, parentIndex)>>)
                ELSE st.edges,
      broke |-> st.broke]

\* a loop that takes the points in the order of their indices
RECURSIVE MstLoopInOrder(_, _, _)
MstLoopInOrder(pts, st, iteration) ==
  IF iteration >= Len(pts) THEN st
  ELSE MstLoopInOrder(pts, MstVisit(pts, st, iteration), iteration + 1)

RECURSIVE MstLoop(_, _, _)
MstLoop(pts, st, iteration) ==
  IF iteration >= Len(pts) THEN st
  ELSE LET bestIndex == MstScan(st, Len(pts), 0, 0 - 1, POSITIVE_INFINITY)
       IN IF bestIndex = 0 - 1
          THEN [st EXCEPT !.broke = TRUE]
          ELSE MstLoop(pts, MstVisit(pts, st, bestIndex), iteration + 1)

\* the run of the function: the edges, and whether the defensive break was taken
MstRun(pts) ==
  IF Len(pts) < 2 THEN [edges |-> <<>>, broke |-> FALSE]
  ELSE LET st == MstLoop(pts, MstStart(pts), 1)
       IN [edges |-> st.edges, broke |-> st.broke]

computeMinimumSpanningTreeEdges(pts) == MstRun(pts).edges

(***************************************************************************)
(* Strings: template literals, String.split and Number.parseInt            *)
(***************************************************************************)
DigitChars == <<"0", "1", "2", "3", "4", "5", "6", "7", "8", "9">>

RECURSIVE DigitsOf(_)
DigitsOf(n) ==
  IF n < 10 THEN <<DigitChars[n + 1]>>
  ELSE DigitsOf(n \div 10) \o <<DigitChars[(n % 10) + 1]>>

\* `${n}` for an integer n
NumberToString(n) == IF n < 0 THEN <<"-">> \o DigitsOf(0 - n) ELSE DigitsOf(n)

\* key.split("-")
RECURSIVE SplitFrom(_, _, _)
SplitFrom(str, i, current) ==
  IF i > Len(str) THEN <<current>>
  ELSE IF str[i] = "-" THEN <<current>> \o SplitFrom(str, i + 1, <<>>)
  ELSE SplitFrom(str, i + 1, Append(current, str[i]))

Split(str) == SplitFrom(str, 1, <<>>)

DigitValue(c) == CHOOSE d \in 0..9 : DigitChars[d + 1] = c
IsDigit(c) == \E d \in 0..9 : DigitChars[d + 1] = c

RECURSIVE ParseDigits(_, _, _)
ParseDigits(str, i, acc) ==
  IF i > Len(str) \/ ~IsDigit(str[i]) THEN acc
  ELSE ParseDigits(str, i + 1, 10 * acc + DigitValue(str[i]))

NaN == "NaN"

\* Number.parseInt(value, 10) of a string of digits, NaN when it starts with none
parseInt(str) ==
  IF Len(str) = 0 \/ ~IsDigit(str[1]) THEN NaN ELSE ParseDigits(str, 1, 0)

\* a key that keeps the order of its arguments
edgeKeyInOrder(a, b) == NumberToString(a) \o <<"-">> \o NumberToString(b)

edgeKey(a, b) ==
  IF a < b THEN NumberToString(a) \o <<"-">> \o NumberToString(b)
  ELSE NumberToString(b) \o <<"-">> \o NumberToString(a)

decodeEdgeKey(key) ==
  LET parts == Split(key)
  IN <<parseInt(parts[1]), parseInt(parts[2])>>

(***************************************************************************)
(* Typed arrays of the triangulation, and reads of the point sequence      *)
(***************************************************************************)
Undefined == [def |-> FALSE, v |-> 0]

\* arr[i] of an Int32Array: undefined outside 0..length-1
At(arr, i) ==
  IF i >= 0 /\ i < Len(arr) THEN [def |-> TRUE, v |-> arr[i + 1]] ELSE Undefined

\* a === b on values read from a typed array
StrictEq(a, b) == a.def = b.def /\ (a.def => a.v = b.v)

\* points[i] is an object (not undefined)
HasPoint(pts, i) == i >= 0 /\ i < Len(pts)

nextHalfedge(index) == IF index % 3 = 2 THEN index - 2 ELSE index + 1

(***************************************************************************)
(* collectDelaunayEdges                                                    *)
(***************************************************************************)
\* a loop that passes over every half-edge that has an opposite
RECURSIVE CollectFromSkipsPaired(_, _, _, _)
CollectFromSkipsPaired(del, edgeIndex, seen, edges) ==
  IF edgeIndex >= Len(del.halfedges) THEN edges
  ELSE LET opposite == del.halfedges[edgeIndex + 1]
           p == At(del.triangles, edgeIndex)
           q == At(del.triangles, nextHalfedge(edgeIndex))
       IN IF opposite >= 0
          THEN CollectFromSkipsPaired(del, edgeIndex + 1, seen, edges)
          ELSE IF StrictEq(p, q) \/ ~p.def \/ ~q.def
          THEN CollectFromSkipsPaired(del, edgeIndex + 1, seen, edges)
          ELSE IF edgeKey(p.v, q.v) \in seen
          THEN CollectFromSkipsPaired(del, edgeIndex + 1, seen, edges)
          ELSE CollectFromSkipsPaired(del, edgeIndex + 1, seen \cup {edgeKey(p.v, q.v)},
                                      Append(edges, <<Min2(p.v, q.v), Max2(p.v, q.v)>>))

RECURSIVE CollectFrom(_, _, _, _)
CollectFrom(del, edgeIndex, seen, edges) ==
  IF edgeIndex >= Len(del.halfedges) THEN edges
  ELSE LET opposite == del.halfedges[edgeIndex + 1]
           p == At(del.triangles, edgeIndex)
           q == At(del.triangles, nextHalfedge(edgeIndex))
       IN IF opposite >= 0 /\ opposite < edgeIndex
          THEN CollectFrom(del, edgeIndex + 1, seen, edges)
          ELSE IF StrictEq(p, q) \/ ~p.def \/ ~q.def
          THEN CollectFrom(del, edgeIndex + 1, seen, edges)
          ELSE IF edgeKey(p.v, q.v) \in seen
          THEN CollectFrom(del, edgeIndex + 1, seen, edges)
          ELSE CollectFrom(del, edgeIndex + 1, seen \cup {edgeKey(p.v, q.v)},
                           Append(edges, <<Min2(p.v, q.v), Max2(p.v, q.v)>>))

collectDelaunayEdges(del) == CollectFrom(del, 0, {}, <<>>)

(***************************************************************************)
(* triangleArea, circumradius                                              *)
(***************************************************************************)
\* the area, carried by its double (the source multiplies the same absolute
\* value by 0.5)
triangleArea(ax, ay, bx, by, cx, cy) ==
  [twice |-> NAbs(NAdd(NAdd(NMul(ax, NSub(by, cy)), NMul(bx, NSub(cy, ay))),
                       NMul(cx, NSub(ay, by))))]

AreaIsZero(area) == NSign(area.twice) = 0

\* the radius R as the fraction R^2 = num / den, or not finite
circumradius(ax, ay, bx, by, cx, cy) ==
  LET a == hypot(NSub(bx, cx), NSub(by, cy))
      b == hypot(NSub(ax, cx), NSub(ay, cy))
      c == hypot(NSub(ax, bx), NSub(ay, by))
      area == triangleArea(ax, ay, bx, by, cx, cy)
      product == NMul(NMul(a.sq, b.sq), c.sq)
  IN IF AreaIsZero(area) THEN [finite |-> FALSE, num |-> Num(0), den |-> Num(1)]
     ELSE IF a.inf \/ b.inf \/ c.inf \/ NLt(Num(MaxValue * MaxValue), product)
     THEN [finite |-> FALSE, num |-> Num(0), den |-> Num(1)]
     ELSE [finite |-> TRUE,
           num |-> product,
           den |-> NScale(4, NMul(area.twice, area.twice))]

\* radius > alpha, for a finite radius
RadiusGt(radius, a) ==
  IF NSign(a) < 0 THEN TRUE
  ELSE NLt(NMul(NMul(a, a), radius.den), radius.num)

(***************************************************************************)
(* computeAlphaData                                                        *)
(***************************************************************************)
\* edgeCount.set(key, (edgeCount.get(key) ?? 0) + 1) on an insertion-ordered Map
\* a counter that is set to 1 at every occurrence of the key
MapIncrementSetsOne(map, key) ==
  IF \E i \in 1..Len(map) : map[i][1] = key
  THEN [i \in 1..Len(map) |-> IF map[i][1] = key THEN <<key, 1>> ELSE map[i]]
  ELSE Append(map, <<key, 1>>)

MapIncrement(map, key) ==
  IF \E i \in 1..Len(map) : map[i][1] = key
  THEN [i \in 1..Len(map) |-> IF map[i][1] = key THEN <<key, map[i][2] + 1>> ELSE map[i]]
  ELSE Append(map, <<key, 1>>)

\* the record is skipped before any point is read
AlphaSkipsRecord(i0, i1, i2) ==
  \/ ~i0.def
  \/ ~i1.def
  \/ ~i2.def
  \/ StrictEq(i0, i1)
  \/ StrictEq(i1, i2)
  \/ StrictEq(i2, i0)

\* a filter that leaves out the triangles at or under the threshold instead
AlphaRejectsBelow(radius, a) == ~radius.finite \/ ~RadiusGt(radius, a)

\* a filter that also leaves out the triangles exactly at the threshold
AlphaRejectsAtThreshold(radius, a) ==
  ~radius.finite \/ RadiusGt(radius, NSub(a, EPSILON))

\* the triangle is left out: !Number.isFinite(radius) || radius > alpha
AlphaRejects(radius, a) == ~radius.finite \/ RadiusGt(radius, a)

RECURSIVE AlphaFrom(_, _, _, _, _, _)
AlphaFrom(pts, triangles, a, index, alphaTriangles, edgeCount) ==
  IF index >= Len(triangles)
  THEN [threw |-> FALSE, triangles |-> alphaTriangles, edgeCount |-> edgeCount]
  ELSE LET i0 == At(triangles, index)
           i1 == At(triangles, index + 1)
           i2 == At(triangles, index + 2)
       IN IF AlphaSkipsRecord(i0, i1, i2)
          THEN AlphaFrom(pts, triangles, a, index + 3, alphaTriangles, edgeCount)
          ELSE IF ~HasPoint(pts, i0.v) \/ ~HasPoint(pts, i1.v) \/ ~HasPoint(pts, i2.v)
          THEN [threw |-> TRUE, triangles |-> alphaTriangles, edgeCount |-> edgeCount]
          ELSE LET p0 == PointAt(pts, i0.v)
                   p1 == PointAt(pts, i1.v)
                   p2 == PointAt(pts, i2.v)
                   radius == circumradius(p0.x, p0.y, p1.x, p1.y, p2.x, p2.y)
               IN IF AlphaRejects(radius, a)
                  THEN AlphaFrom(pts, triangles, a, index + 3, alphaTriangles, edgeCount)
                  ELSE AlphaFrom(pts, triangles, a, index + 3,
                                 Append(alphaTriangles, <<i0.v, i1.v, i2.v>>),
                                 MapIncrement(MapIncrement(MapIncrement(edgeCount,
                                    edgeKey(i0.v, i1.v)), edgeKey(i1.v, i2.v)),
                                    edgeKey(i2.v, i0.v)))

\* a selection that takes the keys counted once when asked for all of them
\* and the keys counted more than once when asked for those counted once
RECURSIVE KeysWhereInverted(_, _, _)
KeysWhereInverted(map, i, onlyOnce) ==
  IF i > Len(map) THEN <<>>
  ELSE IF onlyOnce = (map[i][2] = 1) THEN KeysWhereInverted(map, i + 1, onlyOnce)
  ELSE <<decodeEdgeKey(map[i][1])>> \o KeysWhereInverted(map, i + 1, onlyOnce)

\* the decoded keys of map in insertion order: all of them, or only those
\* whose count is exactly 1
RECURSIVE KeysWhere(_, _, _)
KeysWhere(map, i, onlyOnce) ==
  IF i > Len(map) THEN <<>>
  ELSE IF onlyOnce /\ map[i][2] # 1 THEN KeysWhere(map, i + 1, onlyOnce)
  ELSE <<decodeEdgeKey(map[i][1])>> \o KeysWhere(map, i + 1, onlyOnce)

\* a TypeError leaves no result: threw is TRUE and the fields are empty
computeAlphaData(pts, del, a) ==
  LET run == AlphaFrom(pts, del.triangles, a, 0, <<>>, <<>>)
  IN IF run.threw
     THEN [threw |-> TRUE, triangles |-> <<>>, allEdges |-> <<>>, boundaryEdges |-> <<>>]
     ELSE [threw |-> FALSE,
           triangles |-> run.triangles,
           allEdges |-> KeysWhere(run.edgeCount, 1, FALSE),
           boundaryEdges |-> KeysWhere(run.edgeCount, 1, TRUE)]

(***************************************************************************)
(* computeNearestNeighborEdges                                             *)
(***************************************************************************)
\* edges.add(key) on an insertion-ordered Set
SetAdd(set, key) == IF key \in {set[i] : i \in 1..Len(set)} THEN set ELSE Append(set, key)

\* an inner loop in which a later point at the same distance replaces the
\* earlier one
RECURSIVE NearestFromLastWins(_, _, _, _, _)
NearestFromLastWins(pts, i, j, nearestIndex, nearestDistance) ==
  IF j >= Len(pts) THEN nearestIndex
  ELSE IF i = j THEN NearestFromLastWins(pts, i, j + 1, nearestIndex, nearestDistance)
  ELSE LET d == distanceSquared(PointAt(pts, i), PointAt(pts, j))
       IN IF DLe(d, nearestDistance) /\ ~d.inf
          THEN NearestFromLastWins(pts, i, j + 1, j, d)
          ELSE NearestFromLastWins(pts, i, j + 1, nearestIndex, nearestDistance)

\* the inner loop over j: the index of the first point at the least squared
\* distance from point i, or -1
RECURSIVE NearestFrom(_, _, _, _, _)
NearestFrom(pts, i, j, nearestIndex, nearestDistance) ==
  IF j >= Len(pts) THEN nearestIndex
  ELSE IF i = j THEN NearestFrom(pts, i, j + 1, nearestIndex, nearestDistance)
  ELSE LET d == distanceSquared(PointAt(pts, i), PointAt(pts, j))
       IN IF DLt(d, nearestDistance)
          THEN NearestFrom(pts, i, j + 1, j, d)
          ELSE NearestFrom(pts, i, j + 1, nearestIndex, nearestDistance)

RECURSIVE NearestKeysFrom(_, _, _)
NearestKeysFrom(pts, i, edges) ==
  IF i >= Len(pts) THEN edges
  ELSE LET nearestIndex == NearestFrom(pts, i, 0, -1, POSITIVE_INFINITY)
       IN IF nearestIndex >= 0
          THEN NearestKeysFrom(pts, i + 1, SetAdd(edges, edgeKey(i, nearestIndex)))
          ELSE NearestKeysFrom(pts, i + 1, edges)

\* an outer loop that starts at the second point
computeNearestNeighborEdgesFromSecond(pts) ==
  IF Len(pts) < 2 THEN <<>>
  ELSE LET keys == NearestKeysFrom(pts, 1, <<>>)
       IN Strict([i \in 1..Len(keys) |-> decodeEdgeKey(keys[i])])

computeNearestNeighborEdges(pts) ==
  IF Len(pts) < 2 THEN <<>>
  ELSE LET keys == NearestKeysFrom(pts, 0, <<>>)
       IN Strict([i \in 1..Len(keys) |-> decodeEdgeKey(keys[i])])

(***************************************************************************)
(* computeGabrielEdges, computeRelativeNeighborhoodEdges                   *)
(* A result is [threw, edges]; a TypeError leaves no edges.                *)
(***************************************************************************)
Threw == [threw |-> TRUE, edges |-> <<>>]
Returned(edges) == [threw |-> FALSE, edges |-> edges]

\* a test that takes no EPSILON off the squared radius
GabrielInsideNoEpsilon(a, b, pk) ==
  LET dx2 == NSub(NScale(2, pk.x), NAdd(a.x, b.x))
      dy2 == NSub(NScale(2, pk.y), NAdd(a.y, b.y))
      left4 == NAdd(NMul(dx2, dx2), NMul(dy2, dy2))
      ab == distanceSquared(a, b)
  IN IF Overflows(NAdd(a.x, b.x)) \/ Overflows(NAdd(a.y, b.y))
          \/ NLt(Num(4 * MaxValue), left4)
     THEN FALSE
     ELSE IF ab.inf THEN TRUE
     ELSE NLt(left4, ab.sq)

\* dx * dx + dy * dy < radiusSquared - EPSILON, with both sides multiplied by
\* 4 so that the midpoint and the quarter need no division.  A left side
\* above MaxValue is Infinity, which is below nothing; a right side of
\* Infinity (distanceSquared(a, b) is Infinity) is above every finite left side
GabrielInside(a, b, pk) ==
  LET dx2 == NSub(NScale(2, pk.x), NAdd(a.x, b.x))
      dy2 == NSub(NScale(2, pk.y), NAdd(a.y, b.y))
      left4 == NAdd(NMul(dx2, dx2), NMul(dy2, dy2))
      ab == distanceSquared(a, b)
  IN IF Overflows(NAdd(a.x, b.x)) \/ Overflows(NAdd(a.y, b.y))
          \/ NLt(Num(4 * MaxValue), left4)
     THEN FALSE
     ELSE IF ab.inf THEN TRUE
     ELSE NLt(left4, NSub(ab.sq, NScale(4, EPSILON)))

\* isGabriel after the loop over k
IsGabriel(pts, aIndex, bIndex) ==
  ~\E k \in 0..(Len(pts) - 1) :
     /\ k # aIndex
     /\ k # bIndex
     /\ GabrielInside(PointAt(pts, aIndex), PointAt(pts, bIndex), PointAt(pts, k))

RECURSIVE GabrielFrom(_, _, _, _)
GabrielFrom(pts, candidates, n, result) ==
  IF n > Len(candidates) THEN Returned(result)
  ELSE LET aIndex == candidates[n][1]
           bIndex == candidates[n][2]
       IN IF ~HasPoint(pts, aIndex) \/ ~HasPoint(pts, bIndex) THEN Threw
          ELSE IF IsGabriel(pts, aIndex, bIndex)
          THEN GabrielFrom(pts, candidates, n + 1, Append(result, candidates[n]))
          ELSE GabrielFrom(pts, candidates, n + 1, result)

computeGabrielEdges(pts, candidates) == GabrielFrom(pts, candidates, 1, <<>>)

\* Math.max on lengths
DMax(d1, d2) == IF DLt(d1, d2) THEN d2 ELSE d1

\* a comparison that takes no EPSILON off the length ab
DLtNoEpsilon(m, ab) == DLt(m, ab)

\* m < ab - EPSILON on lengths carried by their squares: for finite lengths,
\* sqrt(M) + e < sqrt(B) exactly when S = B - M - e^2 > 0 and 4 e^2 M < S^2
DLtMinusEpsilon(m, ab) ==
  IF m.inf THEN FALSE
  ELSE IF ab.inf THEN TRUE
  ELSE LET e2 == NMul(EPSILON, EPSILON)
           S == NSub(NSub(ab.sq, m.sq), e2)
       IN NSign(S) > 0 /\ NLt(NScale(4, NMul(e2, m.sq)), NMul(S, S))

\* isRelativeNeighbor after the loop over k
IsRelativeNeighbor(pts, aIndex, bIndex) ==
  LET ab == distance(PointAt(pts, aIndex), PointAt(pts, bIndex))
  IN ~\E k \in 0..(Len(pts) - 1) :
        /\ k # aIndex
        /\ k # bIndex
        /\ DLtMinusEpsilon(DMax(distance(PointAt(pts, aIndex), PointAt(pts, k)),
                                distance(PointAt(pts, bIndex), PointAt(pts, k))), ab)

RECURSIVE RelativeFrom(_, _, _, _)
RelativeFrom(pts, candidates, n, result) ==
  IF n > Len(candidates) THEN Returned(result)
  ELSE LET aIndex == candidates[n][1]
           bIndex == candidates[n][2]
       IN IF ~HasPoint(pts, aIndex) \/ ~HasPoint(pts, bIndex) THEN Threw
          ELSE IF IsRelativeNeighbor(pts, aIndex, bIndex)
          THEN RelativeFrom(pts, candidates, n + 1, Append(result, candidates[n]))
          ELSE RelativeFrom(pts, candidates, n + 1, result)

computeRelativeNeighborhoodEdges(pts, candidates) == RelativeFrom(pts, candidates, 1, <<>>)

(***************************************************************************)
(* computeDerivedStructures.  The triangulation comes from the provider    *)
(* (Delaunay.from), so its arrays are an argument here; the Voronoi cells  *)
(* are carried by where they come from.  A result is                       *)
(* [threw, voronoiCells, graphEdges, alphaTriangles].                      *)
(***************************************************************************)
\* a bundle whose edge array is one array kept between the calls, each call
\* pushing its edges after those of the calls before it
BundleAccumulating(cells, graphEdges, alphaTriangles) ==
  [threw |-> FALSE, voronoiCells |-> cells,
   graphEdges |-> IF called = "computeDerivedStructures" /\ ~out.threw
                  THEN out.graphEdges \o graphEdges ELSE graphEdges,
   alphaTriangles |-> alphaTriangles]

Bundle(cells, graphEdges, alphaTriangles) ==
  [threw |-> FALSE, voronoiCells |-> cells,
   graphEdges |-> graphEdges, alphaTriangles |-> alphaTriangles]

BundleThrew ==
  [threw |-> TRUE, voronoiCells |-> "none", graphEdges |-> <<>>, alphaTriangles |-> <<>>]

\* the bundle of a filter's result, or the filter's TypeError
BundleOfFilter(result) ==
  IF result.threw THEN BundleThrew ELSE Bundle("provider", result.edges, <<>>)

\* a dispatch that hands out the qualifying triangles in alpha-shape mode too
computeDerivedStructuresTrianglesInShape(pts, del, a, m) ==
  IF Len(pts) = 0 THEN Bundle("none", <<>>, <<>>)
  ELSE IF m = "voronoi-bruteforce" THEN Bundle("bruteforce", <<>>, <<>>)
  ELSE IF m = "voronoi" THEN Bundle("provider", <<>>, <<>>)
  ELSE IF m = "alpha-shape" \/ m = "alpha-complex"
  THEN LET alphaData == computeAlphaData(pts, del, a)
       IN IF alphaData.threw THEN BundleThrew
          ELSE Bundle("provider",
                      IF m = "alpha-shape" THEN alphaData.boundaryEdges
                                           ELSE alphaData.allEdges,
                      alphaData.triangles)
  ELSE IF m = "nn-crust"
  THEN Bundle("provider", computeNearestNeighborEdges(pts), <<>>)
  ELSE IF m = "gabriel"
  THEN BundleOfFilter(computeGabrielEdges(pts, collectDelaunayEdges(del)))
  ELSE IF m = "rng"
  THEN BundleOfFilter(computeRelativeNeighborhoodEdges(pts, collectDelaunayEdges(del)))
  ELSE Bundle("provider", computeMinimumSpanningTreeEdges(pts), <<>>)

computeDerivedStructures(pts, del, a, m) ==
  IF Len(pts) = 0 THEN Bundle("none", <<>>, <<>>)
  ELSE IF m = "voronoi-bruteforce" THEN Bundle("bruteforce", <<>>, <<>>)
  ELSE IF m = "voronoi" THEN Bundle("provider", <<>>, <<>>)
  ELSE IF m = "alpha-shape" \/ m = "alpha-complex"
  THEN LET alphaData == computeAlphaData(pts, del, a)
       IN IF alphaData.threw THEN BundleThrew
          ELSE Bundle("provider",
                      IF m = "alpha-shape" THEN alphaData.boundaryEdges
                                           ELSE alphaData.allEdges,
                      IF m = "alpha-complex" THEN alphaData.triangles ELSE <<>>)
  ELSE IF m = "nn-crust"
  THEN Bundle("provider", computeNearestNeighborEdges(pts), <<>>)
  ELSE IF m = "gabriel"
  THEN BundleOfFilter(computeGabrielEdges(pts, collectDelaunayEdges(del)))
  ELSE IF m = "rng"
  THEN BundleOfFilter(computeRelativeNeighborhoodEdges(pts, collectDelaunayEdges(del)))
  ELSE Bundle("provider", computeMinimumSpanningTreeEdges(pts), <<>>)

(***************************************************************************)
(* Inputs                                                                  *)
(***************************************************************************)
SeqsUpTo(S, n) == UNION {[1..k -> S] : k \in 0..n}

\* whole-pixel positions of the grid
GridPositions == {<<Num(x), Num(y)>> : x \in 0..MaxCoord, y \in 0..MaxCoord}

\* two positions far out on either side: each is within the number range of
\* every grid position, but their difference is not (as -1e308 and 1e308)
FarCoord == (3 * MaxValue) \div 5
FarPositions == {<<Num(0 - FarCoord), Num(0)>>, <<Num(FarCoord), Num(0)>>}

\* a whole coordinate within the number range whose square is not
WideCoord == MaxValue \div 25

\* a point sequence from a sequence of positions; ids are assigned by the caller
MkPoints(pos) ==
  Strict([i \in 1..Len(pos) |-> [id |-> i - 1, x |-> pos[i][1], y |-> pos[i][2]]])

\* the corners and the centre of a square (side 2, so that the centre is whole)
SquareScenario ==
  MkPoints(<< <<Num(0), Num(0)>>, <<Num(2), Num(0)>>, <<Num(2), Num(2)>>,
              <<Num(0), Num(2)>>, <<Num(1), Num(1)>> >>)

MstInputs ==
  {MkPoints(pos) : pos \in SeqsUpTo(GridPositions \cup FarPositions, MaxMstPoints)}
  \cup {SquareScenario}

NoDelaunay == [triangles |-> <<>>, halfedges |-> <<>>]
NoResult == [edges |-> <<>>]

\* no canvas is mounted
NoUi == [mounted |-> FALSE]

\* no sequence of calls is followed
NoSession == [open |-> FALSE]

(***************************************************************************)
(* Specification of the minimum spanning tree builder                      *)
(***************************************************************************)
InitMst ==
  /\ points \in MstInputs
  /\ delaunay = NoDelaunay
  /\ alpha = Num(0)
  /\ mode = "mst"
  /\ candidateEdges = <<>>
  /\ called = "none"
  /\ out = NoResult
  /\ ui = NoUi
  /\ session = NoSession

CallMst ==
  /\ called = "none"
  /\ called' = "computeMinimumSpanningTreeEdges"
  /\ out' = MstRun(points)
  /\ UNCHANGED <<points, delaunay, alpha, mode, candidateEdges, ui, session>>

NextMst == CallMst

SpecMst == InitMst /\ [][NextMst]_vars

(***************************************************************************)
(* Graph helpers for the statements                                        *)
(***************************************************************************)
SeqToSet(s) == {s[i] : i \in 1..Len(s)}

RECURSIVE Grow(_, _)
Grow(S, E) ==
  LET T == S \cup {e[2] : e \in {f \in E : f[1] \in S}}
             \cup {e[1] : e \in {f \in E : f[2] \in S}}
  IN IF T = S THEN S ELSE Grow(T, E)

Component(v, E) == Grow({v}, E)
NumComponents(n, E) == Cardinality({Component(v, E) : v \in 0..(n - 1)})
Connected(n, E) == Component(0, E) = 0..(n - 1)

\* a sequence of edges without repetition, self-loop or cycle
AcyclicSeq(n, edges) ==
  /\ \A i \in 1..Len(edges) : edges[i][1] # edges[i][2]
  /\ \A i, j \in 1..Len(edges) : i # j => edges[i] # edges[j]
  /\ Len(edges) + NumComponents(n, SeqToSet(edges)) = n

AllPairs(n) == {e \in (0..(n - 1)) \X (0..(n - 1)) : e[1] < e[2]}

\* the spanning trees of the complete graph on n vertices, for every n used
SpanningTreeTable ==
  [n \in 2..Max2(MaxMstPoints, 5) |->
     {T \in SUBSET AllPairs(n) : Cardinality(T) = n - 1 /\ Connected(n, T)}]

SpanningTrees(n) == SpanningTreeTable[n]

EdgeLength(pts, e) == distance(PointAt(pts, e[1]), PointAt(pts, e[2]))

\* every pairwise distance is a finite number
AllDistancesFinite(pts) ==
  \A i, j \in 1..Len(pts) : ~distance(pts[i], pts[j]).inf

MstCalled == called = "computeMinimumSpanningTreeEdges"

(***************************************************************************)
(* C1                                                                      *)
(***************************************************************************)
\* C1 (as stated): for n >= 2 points the builder returns exactly n-1 edges
\* that form an acyclic graph connecting all n indices, and the defensive
\* break is not taken.
C1_AsStated ==
  (MstCalled /\ Len(points) >= 2) =>
    /\ Len(out.edges) = Len(points) - 1
    /\ AcyclicSeq(Len(points), out.edges)
    /\ Connected(Len(points), SeqToSet(out.edges))
    /\ ~out.broke

\* C1 (amended): the same, for n >= 2 points whose pairwise distances are
\* all finite as computed by distance() (no coordinate difference or length
\* overflows to Infinity).
C1_SpanningTree ==
  (MstCalled /\ Len(points) >= 2 /\ AllDistancesFinite(points)) =>
    /\ Len(out.edges) = Len(points) - 1
    /\ AcyclicSeq(Len(points), out.edges)
    /\ Connected(Len(points), SeqToSet(out.edges))
    /\ ~out.broke

\* a run on three points, two of them coincident, that returned two edges
C1_Witness ==
  /\ MstCalled
  /\ Len(points) = 3
  /\ AllDistancesFinite(points)
  /\ \E i, j \in 1..3 : i # j /\ points[i].x = points[j].x /\ points[i].y = points[j].y
  /\ Len(out.edges) = 2

(***************************************************************************)
(* C2                                                                      *)
(***************************************************************************)
\* the length of every pair of points
Lengths(pts) == Strict([e \in AllPairs(Len(pts)) |-> EdgeLength(pts, e)])

\* how many edges of E are longer than w
Longer(L, E, w) == Cardinality({e \in E : DLt(w, L[e])})

\* the edges of `edges`, longest first, are one by one no longer than those
\* of T: then their total length is no more than that of T
NoLongerThan(L, edges, T) ==
  /\ Len(edges) <= Cardinality(T)
  /\ \A i \in 1..Len(edges) : edges[i] \in DOMAIN L
  /\ \A i, j \in 1..Len(edges) : i # j => edges[i] # edges[j]
  /\ \A t \in T : Longer(L, SeqToSet(edges), L[t]) <= Longer(L, T, L[t])

\* C2: for n >= 2 points the total length of the returned edges is minimal
\* among all spanning trees of the complete graph on the points; for the
\* corners and the centre of a square the result is the four
\* centre-to-corner edges.
C2_MinimalLength ==
  (MstCalled /\ Len(points) >= 2) =>
    /\ LET L == Lengths(points)
       IN \A T \in SpanningTrees(Len(points)) : NoLongerThan(L, out.edges, T)
    /\ points = SquareScenario =>
         SeqToSet(out.edges) = {<<0, 4>>, <<1, 4>>, <<2, 4>>, <<3, 4>>}

\* the run on the square, where the perimeter tree is strictly longer than
\* the returned one
C2_Witness ==
  /\ MstCalled
  /\ points = SquareScenario
  /\ Len(out.edges) = 4
  /\ LET T == {<<0, 1>>, <<1, 2>>, <<2, 3>>, <<0, 4>>}
         L == Lengths(points)
     IN \E t \in T : Longer(L, SeqToSet(out.edges), L[t]) < Longer(L, T, L[t])


(***************************************************************************)
(* Specification of the alpha filter                                       *)
(***************************************************************************)
MaxAlphaX == 2
MaxAlphaY == 1
MaxAlphaPoints == 4
MaxAlpha == 2

AlphaPositions == {<<Num(x), Num(y)>> : x \in 0..MaxAlphaX, y \in 0..MaxAlphaY}

AlphaPointInputs ==
  {MkPoints(pos) : pos \in UNION {[1..k -> AlphaPositions] : k \in 3..MaxAlphaPoints}}

\* records of three indices as a triangulation lists them, and records that
\* repeat an index or name no point
TriangleRecords ==
  {<<0, 1, 2>>, <<2, 1, 3>>, <<0, 1, 1>>, <<0, -1, 1>>, <<1, 0, MaxAlphaPoints>>}

\* one or two records, or an array whose last record is cut short by its end
TriangleArrays ==
  {r1 \o r2 : r1 \in TriangleRecords \cup {<<>>}, r2 \in {<<>>, <<2, 1, 3>>}}
  \cup {r \o <<0, 1>> : r \in {<<>>, <<0, 1, 2>>}}

MkDelaunay(triangles) ==
  [triangles |-> triangles, halfedges |-> [i \in 1..Len(triangles) |-> -1]]

AlphaValues == {Num(a) : a \in 0..MaxAlpha}

\* a right triangle with sides 6, 8 and 10: its circumradius is 5, and the
\* double arithmetic of circumradius gives exactly 5
AlphaRightTriangle == MkPoints(<< <<Num(0), Num(0)>>, <<Num(6), Num(0)>>, <<Num(0), Num(8)>> >>)

\* thresholds at, just under and just over the circumradius 5
AlphaNearFive == {Num(4), NSub(Num(5), EPSILON), Num(5), NAdd(Num(5), EPSILON), Num(6)}

InitAlpha ==
  /\ \/ points \in AlphaPointInputs /\ alpha \in AlphaValues
     \/ points = AlphaRightTriangle /\ alpha \in AlphaNearFive
  /\ delaunay \in {MkDelaunay(t) : t \in TriangleArrays}
  /\ mode = "alpha-complex"
  /\ candidateEdges = <<>>
  /\ called = "none"
  /\ out = NoResult
  /\ ui = NoUi
  /\ session = NoSession

CallAlpha ==
  /\ called = "none"
  /\ called' = "computeAlphaData"
  /\ out' = computeAlphaData(points, delaunay, alpha)
  /\ UNCHANGED <<points, delaunay, alpha, mode, candidateEdges, ui, session>>

NextAlpha == CallAlpha

SpecAlpha == InitAlpha /\ [][NextAlpha]_vars

AlphaCalled == called = "computeAlphaData"


\* C4: for alpha1 < alpha2 the triangles computeAlphaData returns at alpha1
\* are among those it returns at alpha2, for the same points and triangulation
C4_AlphaMonotone ==
  AlphaCalled =>
    \A a2 \in AlphaValues :
      NLt(alpha, a2) =>
        LET larger == computeAlphaData(points, delaunay, a2)
        IN /\ larger.threw = out.threw
           /\ SeqToSet(out.triangles) \subseteq SeqToSet(larger.triangles)

\* one triangle qualifies at alpha = 1 and a second one only at alpha = 2
C4_Witness ==
  /\ AlphaCalled
  /\ ~out.threw
  /\ alpha = Num(1)
  /\ Len(out.triangles) = 1
  /\ Len(computeAlphaData(points, delaunay, Num(2)).triangles) = 2

\* C5: every edge of boundaryEdges is also in allEdges of the same call
C5_BoundaryInComplex ==
  AlphaCalled => SeqToSet(out.boundaryEdges) \subseteq SeqToSet(out.allEdges)

\* two qualifying triangles share an edge: five edges, four on the boundary
C5_Witness ==
  /\ AlphaCalled
  /\ ~out.threw
  /\ Len(out.triangles) = 2
  /\ Len(out.allEdges) = 5
  /\ Len(out.boundaryEdges) = 4
  /\ <<1, 2>> \in SeqToSet(out.allEdges) \ SeqToSet(out.boundaryEdges)


\* a record with a missing index, an index that names no point, or an index
\* that occurs twice
RecordIsMalformed(pts, i0, i1, i2) ==
  \/ ~i0.def \/ ~i1.def \/ ~i2.def
  \/ ~HasPoint(pts, i0.v) \/ ~HasPoint(pts, i1.v) \/ ~HasPoint(pts, i2.v)
  \/ i0.v = i1.v \/ i1.v = i2.v \/ i2.v = i0.v

\* the records of the triangle array that are not malformed, in order
RECURSIVE WithoutMalformed(_, _, _)
WithoutMalformed(pts, triangles, index) ==
  IF index >= Len(triangles) THEN <<>>
  ELSE LET i0 == At(triangles, index)
           i1 == At(triangles, index + 1)
           i2 == At(triangles, index + 2)
       IN IF RecordIsMalformed(pts, i0, i1, i2)
          THEN WithoutMalformed(pts, triangles, index + 3)
          ELSE <<i0.v, i1.v, i2.v>> \o WithoutMalformed(pts, triangles, index + 3)

\* C7: computeAlphaData never raises on a record with a missing, out-of-range
\* or repeated index, and its result is the one the remaining records give
C7_AsStated ==
  AlphaCalled =>
    /\ ~out.threw
    /\ out = computeAlphaData(points,
                              MkDelaunay(WithoutMalformed(points, delaunay.triangles, 0)),
                              alpha)


(***************************************************************************)
(* triangleArea and circumradius in binary floating point.  Every product, *)
(* sum and difference is rounded to the nearest number with Precision      *)
(* significant bits, ties to even (Precision stands for the 53 bits of a   *)
(* double).  Coordinates are whole numbers, so every intermediate value is *)
(* a whole number.                                                         *)
(***************************************************************************)
Precision == 3
MaxAreaCoord == 3

RECURSIVE BitLength(_)
BitLength(n) == IF n = 0 THEN 0 ELSE 1 + BitLength(n \div 2)

RECURSIVE Pow2(_)
Pow2(k) == IF k = 0 THEN 1 ELSE 2 * Pow2(k - 1)

RoundMagnitude(m) ==
  IF BitLength(m) <= Precision THEN m
  ELSE LET shift == BitLength(m) - Precision
           q == m \div Pow2(shift)
           r == m % Pow2(shift)
           half == Pow2(shift - 1)
       IN IF r > half \/ (r = half /\ q % 2 = 1)
          THEN (q + 1) * Pow2(shift)
          ELSE q * Pow2(shift)

RoundToPrecision(n) == IF n < 0 THEN 0 - RoundMagnitude(0 - n) ELSE RoundMagnitude(n)

FMul(a, b) == RoundToPrecision(a * b)
FAdd(a, b) == RoundToPrecision(a + b)
FSub(a, b) == RoundToPrecision(a - b)
FAbs(a) == IF a < 0 THEN 0 - a ELSE a

\* the area as the machine computes it, carried by its double (the final
\* multiplication by 0.5 is exact)
triangleAreaRounded(ax, ay, bx, by, cx, cy) ==
  [twice |-> FAbs(FAdd(FAdd(FMul(ax, FSub(by, cy)), FMul(bx, FSub(cy, ay))),
                       FMul(cx, FSub(ay, by))))]

\* whether circumradius returns a finite number: Infinity when the computed
\* area is 0, otherwise the quotient of a finite product by a non-zero number
circumradiusRounded(ax, ay, bx, by, cx, cy) ==
  [finite |-> triangleAreaRounded(ax, ay, bx, by, cx, cy).twice # 0]

AreaPositions == {<<x, y>> : x \in 0..MaxAreaCoord, y \in 0..MaxAreaCoord}

InitArea ==
  /\ points \in {MkPoints(pos) : pos \in [1..3 -> AreaPositions]}
  /\ delaunay = MkDelaunay(<<0, 1, 2>>)
  /\ alpha = Num(0)
  /\ mode = "alpha-complex"
  /\ candidateEdges = <<>>
  /\ called = "none"
  /\ out = NoResult
  /\ ui = NoUi
  /\ session = NoSession

CallCircumradius ==
  /\ called = "none"
  /\ called' = "circumradius"
  /\ LET a == points[1]
         b == points[2]
         c == points[3]
     IN out' = [area |-> triangleAreaRounded(a.x, a.y, b.x, b.y, c.x, c.y),
                radius |-> circumradiusRounded(a.x, a.y, b.x, b.y, c.x, c.y)]
  /\ UNCHANGED <<points, delaunay, alpha, mode, candidateEdges, ui, session>>

NextArea == CallCircumradius

SpecArea == InitArea /\ [][NextArea]_vars

\* the three points lie on one line (coincident points included), decided
\* on the exact whole-number coordinates
Collinear(a, b, c) == (b.x - a.x) * (c.y - a.y) = (b.y - a.y) * (c.x - a.x)

\* C8: for three collinear or coincident points triangleArea is 0 and
\* circumradius is positive infinity, so that no finite alpha admits them
C8_AsStated ==
  (called = "circumradius" /\ Collinear(points[1], points[2], points[3])) =>
    /\ out.area.twice = 0
    /\ ~out.radius.finite


(***************************************************************************)
(* Specification of the proximity filters                                  *)
(***************************************************************************)
MaxProxX == 2
MaxProxY == 1
MaxProxPoints == 3

\* whole-pixel positions, and the positions one millionth of a pixel off them
\* in both coordinates
ProxPositions ==
  {<<<<x, u>>, <<y, u>>>> : x \in 0..MaxProxX, y \in 0..MaxProxY, u \in 0..1}

ProxPointInputs ==
  {MkPoints(pos) : pos \in UNION {[1..k -> ProxPositions] : k \in 2..MaxProxPoints}}

\* the index pairs a < b in the order of the pair list
PairList(n) ==
  LET pairs == AllPairs(n)
      Before(e, f) == e[1] < f[1] \/ (e[1] = f[1] /\ e[2] < f[2])
  IN Strict([k \in 1..Cardinality(pairs) |->
       CHOOSE e \in pairs : Cardinality({f \in pairs : Before(f, e)}) = k - 1])

RECURSIVE SubSeqs(_)
SubSeqs(seq) ==
  IF Len(seq) = 0 THEN {<<>>}
  ELSE LET rest == SubSeqs(Tail(seq))
       IN rest \cup {<<Head(seq)>> \o r : r \in rest}

\* the four corners of a pixel square
ProxSquare ==
  MkPoints(<< <<Num(0), Num(0)>>, <<Num(1), Num(0)>>, <<Num(0), Num(1)>>,
              <<Num(1), Num(1)>> >>)

\* three points so far apart that a squared distance, or a distance, is
\* beyond the number range
ProxWide ==
  {MkPoints(<< <<Num(0), Num(0)>>, <<Num(WideCoord), Num(0)>>, <<Num(-9), Num(10)>> >>),
   MkPoints(<< <<Num(0), Num(0)>>, <<Num(70), Num(0)>>, <<Num(35), Num(33)>> >>),
   MkPoints(<< <<Num(0 - FarCoord), Num(0)>>, <<Num(FarCoord), Num(0)>>, <<Num(0), Num(0)>> >>),
   MkPoints(<< <<Num(0 - FarCoord), Num(0)>>, <<Num(FarCoord), Num(0)>>,
               <<Num(0), Num(FarCoord + WideCoord)>> >>)}

InitProx ==
  /\ points \in ProxPointInputs \cup {ProxSquare} \cup ProxWide
  /\ delaunay = NoDelaunay
  /\ alpha = Num(0)
  /\ mode = "gabriel"
  /\ candidateEdges \in SubSeqs(PairList(Len(points)))
  /\ called = "none"
  /\ out = NoResult
  /\ ui = NoUi
  /\ session = NoSession

CallProximityFilters ==
  /\ called = "none"
  /\ called' = "proximity"
  /\ out' = [gabriel |-> computeGabrielEdges(points, candidateEdges),
             rng |-> computeRelativeNeighborhoodEdges(points, candidateEdges)]
  /\ UNCHANGED <<points, delaunay, alpha, mode, candidateEdges, ui, session>>

NextProx == CallProximityFilters

SpecProx == InitProx /\ [][NextProx]_vars

ProxCalled == called = "proximity"

\* sign of the turn a -> b -> c
Orient(a, b, c) ==
  NSign(NSub(NMul(NSub(b.x, a.x), NSub(c.y, a.y)), NMul(NSub(b.y, a.y), NSub(c.x, a.x))))

Det3(r1, r2, r3) ==
  NAdd(NSub(NMul(r1[1], NSub(NMul(r2[2], r3[3]), NMul(r2[3], r3[2]))),
            NMul(r1[2], NSub(NMul(r2[1], r3[3]), NMul(r2[3], r3[1])))),
       NMul(r1[3], NSub(NMul(r2[1], r3[2]), NMul(r2[2], r3[1]))))

\* d lies strictly inside the circle through a, b, c (not collinear)
InCircumcircle(a, b, c, d) ==
  LET Row(p) == LET dx == NSub(p.x, d.x)
                    dy == NSub(p.y, d.y)
                IN <<dx, dy, NAdd(NMul(dx, dx), NMul(dy, dy))>>
  IN NSign(Det3(Row(a), Row(b), Row(c))) * Orient(a, b, c) > 0

\* p lies on the line through a and b, strictly between them
StrictlyBetween(a, b, p) ==
  /\ Orient(a, b, p) = 0
  /\ NSign(NAdd(NMul(NSub(p.x, a.x), NSub(p.x, b.x)),
                NMul(NSub(p.y, a.y), NSub(p.y, b.y)))) < 0

\* some circle through points i and j has no point strictly inside: the
\* circle through a third point, or a circle bulging far out to a side
\* that holds no point
IsDelaunayEdge(pts, i, j) ==
  LET a == PointAt(pts, i)
      b == PointAt(pts, j)
      others == (0..(Len(pts) - 1)) \ {i, j}
  IN /\ ~(NEq(a.x, b.x) /\ NEq(a.y, b.y))
     /\ \/ \E k \in others :
             /\ Orient(a, b, PointAt(pts, k)) # 0
             /\ \A l \in others \ {k} :
                  ~InCircumcircle(a, b, PointAt(pts, k), PointAt(pts, l))
        \/ \E side \in {-1, 1} :
             \A l \in others :
               /\ Orient(a, b, PointAt(pts, l)) # side
               /\ ~StrictlyBetween(a, b, PointAt(pts, l))

CandidatesAreDelaunayEdges ==
  \A n \in 1..Len(candidateEdges) :
    IsDelaunayEdge(points, candidateEdges[n][1], candidateEdges[n][2])

\* C3: over candidates drawn from the Delaunay edges, the edges kept by the
\* RNG filter are among those kept by the Gabriel filter, which are among
\* the candidates
C3_AsStated ==
  (ProxCalled /\ CandidatesAreDelaunayEdges) =>
    /\ SeqToSet(out.rng.edges) \subseteq SeqToSet(out.gabriel.edges)
    /\ SeqToSet(out.gabriel.edges) \subseteq SeqToSet(candidateEdges)

\* no two points at the same place
PointsDistinct(pts) ==
  \A i, j \in 1..Len(pts) :
    (NEq(pts[i].x, pts[j].x) /\ NEq(pts[i].y, pts[j].y)) => i = j

\* the segments of the pairs e and f cross at a point inside both
Crosses(pts, e, f) ==
  LET a == PointAt(pts, e[1])
      b == PointAt(pts, e[2])
      c == PointAt(pts, f[1])
      d == PointAt(pts, f[2])
  IN /\ Orient(a, b, c) * Orient(a, b, d) < 0
     /\ Orient(c, d, a) * Orient(c, d, b) < 0

\* the candidates are the edges of a Delaunay triangulation of the points:
\* Delaunay edges of which no two cross, and to which no further Delaunay
\* edge can be added without crossing one
CandidatesAreDelaunayTriangulation ==
  LET E == SeqToSet(candidateEdges)
  IN /\ PointsDistinct(points)
     /\ CandidatesAreDelaunayEdges
     /\ \A e, f \in E : ~Crosses(points, e, f)
     /\ \A e \in AllPairs(Len(points)) \ E :
          IsDelaunayEdge(points, e[1], e[2]) => \E f \in E : Crosses(points, e, f)

\* C16: over the edges of a Delaunay triangulation of the points each filter
\* returns the edge set it returns over all the pairs of points
C16_AsStated ==
  (ProxCalled /\ CandidatesAreDelaunayTriangulation) =>
    LET all == PairList(Len(points))
    IN /\ SeqToSet(out.gabriel.edges) = SeqToSet(computeGabrielEdges(points, all).edges)
       /\ SeqToSet(out.rng.edges)
            = SeqToSet(computeRelativeNeighborhoodEdges(points, all).edges)


(***************************************************************************)
(* Specification of computeDerivedStructures                               *)
(***************************************************************************)
MaxDerivedCoord == 1
MaxDerivedPoints == 4
MaxDerivedAlpha == 1

\* the corner of the pixel grid cut off at x + y = MaxDerivedCoord
DerivedPositions ==
  {<<Num(pos[1]), Num(pos[2])>> :
     pos \in {q \in (0..MaxDerivedCoord) \X (0..MaxDerivedCoord) :
               q[1] + q[2] <= MaxDerivedCoord}}

DerivedPointInputs ==
  {MkPoints(pos) : pos \in SeqsUpTo(DerivedPositions, MaxDerivedPoints)}

GraphModes ==
  {"voronoi", "voronoi-bruteforce", "alpha-shape", "alpha-complex",
   "nn-crust", "gabriel", "rng", "mst", "other"}

\* arrays a provider hands out: none, the placeholder slot of a single
\* point (-1 where no index is), a slot repeating an index, the slot of two
\* points, one triangle, two triangles sharing the edge 1-2
ProviderFamily ==
  {[triangles |-> <<>>, halfedges |-> <<>>],
   [triangles |-> <<0, -1, -1>>, halfedges |-> <<-1, -1, -1>>],
   [triangles |-> <<0, 0, 0>>, halfedges |-> <<-1, -1, -1>>],
   [triangles |-> <<0, 1, 1>>, halfedges |-> <<-1, -1, -1>>],
   [triangles |-> <<0, 1, 2>>, halfedges |-> <<-1, -1, -1>>],
   [triangles |-> <<0, 1, 2, 2, 1, 3>>, halfedges |-> <<-1, 3, -1, 1, -1, -1>>]}

\* those whose entries are -1 or the index of one of the n points
ProviderArrays(n) ==
  {d \in ProviderFamily : \A i \in 1..Len(d.triangles) : d.triangles[i] < n}

InitDerived ==
  /\ points \in DerivedPointInputs
  /\ delaunay \in ProviderArrays(Len(points))
  /\ alpha \in {Num(a) : a \in 0..MaxDerivedAlpha}
  /\ mode \in GraphModes
  /\ candidateEdges = <<>>
  /\ called = "none"
  /\ out = NoResult
  /\ ui = NoUi
  /\ session = NoSession

CallDerived ==
  /\ called = "none"
  /\ called' = "computeDerivedStructures"
  /\ out' = computeDerivedStructures(points, delaunay, alpha, mode)
  /\ UNCHANGED <<points, delaunay, alpha, mode, candidateEdges, ui, session>>

NextDerived == CallDerived

SpecDerived == InitDerived /\ [][NextDerived]_vars

DerivedCalled == called = "computeDerivedStructures"

\* C6: for 0 or 1 points nothing throws and every builder gives empty sets:
\* the nearest-neighbour and spanning-tree builders return no edge, and the
\* bundle has no graph edge and no alpha triangle in any mode, whatever the
\* provider's arrays
C6_AsStated ==
  (DerivedCalled /\ Len(points) <= 1) =>
    /\ computeNearestNeighborEdges(points) = <<>>
    /\ computeMinimumSpanningTreeEdges(points) = <<>>
    /\ ~out.threw
    /\ out.graphEdges = <<>>
    /\ out.alphaTriangles = <<>>


\* C10: for a non-empty point sequence the mode decides the bundle: voronoi
\* and voronoi-bruteforce give no edge and no triangle; alpha-shape gives the
\* boundary edges and no triangle; alpha-complex gives all edges and the
\* qualifying triangles; nn-crust, gabriel and rng give their filter's edges
\* (gabriel and rng over the collected Delaunay edges) and no triangle; mst
\* and any other mode give the spanning tree's edges and no triangle.  A
\* TypeError of the builder a mode runs is the call's TypeError.
C10_ModeDetermines ==
  (DerivedCalled /\ Len(points) > 0) =>
    LET candidates == collectDelaunayEdges(delaunay)
        alphaData == computeAlphaData(points, delaunay, alpha)
        gabriel == computeGabrielEdges(points, candidates)
        rng == computeRelativeNeighborhoodEdges(points, candidates)
    IN /\ mode \in {"voronoi", "voronoi-bruteforce"} =>
            ~out.threw /\ out.graphEdges = <<>> /\ out.alphaTriangles = <<>>
       /\ mode = "alpha-shape" =>
            /\ out.threw = alphaData.threw
            /\ out.graphEdges = alphaData.boundaryEdges
            /\ out.alphaTriangles = <<>>
       /\ mode = "alpha-complex" =>
            /\ out.threw = alphaData.threw
            /\ out.graphEdges = alphaData.allEdges
            /\ out.alphaTriangles = alphaData.triangles
       /\ mode = "nn-crust" =>
            /\ ~out.threw
            /\ out.graphEdges = computeNearestNeighborEdges(points)
            /\ out.alphaTriangles = <<>>
       /\ mode = "gabriel" =>
            /\ out.threw = gabriel.threw
            /\ out.graphEdges = gabriel.edges
            /\ out.alphaTriangles = <<>>
       /\ mode = "rng" =>
            /\ out.threw = rng.threw
            /\ out.graphEdges = rng.edges
            /\ out.alphaTriangles = <<>>
       /\ mode \in {"mst", "other"} =>
            /\ ~out.threw
            /\ out.graphEdges = computeMinimumSpanningTreeEdges(points)
            /\ out.alphaTriangles = <<>>
       /\ out.alphaTriangles # <<>> => mode = "alpha-complex"

\* alpha-complex mode over two qualifying triangles: five edges, two triangles
C10_Witness ==
  /\ DerivedCalled
  /\ mode = "alpha-complex"
  /\ ~out.threw
  /\ Len(out.alphaTriangles) = 2
  /\ Len(out.graphEdges) = 5


(***************************************************************************)
(* The slider mapping (sliderToRadius, radiusToSlider) in binary floating  *)
(* point.  A number is m * 2^e, carried as [m, e] with m odd (or 0 with    *)
(* e = 0), and every operation rounds its exact result to SliderPrecision  *)
(* significant bits, to nearest, ties to even: the arithmetic of a double  *)
(* with a shorter significand.  All numbers here are non-negative.         *)
(***************************************************************************)
SliderPrecision == 10
MaxFine == 32
MaxTinyExponent == 20

RECURSIVE FlNorm(_, _)
FlNorm(m, e) ==
  IF m = 0 THEN [m |-> 0, e |-> 0]
  ELSE IF m % 2 = 0 THEN FlNorm(m \div 2, e + 1)
  ELSE [m |-> m, e |-> e]

\* m * 2^e rounded to the precision
FlRound(m, e) ==
  IF BitLength(m) <= SliderPrecision THEN FlNorm(m, e)
  ELSE LET shift == BitLength(m) - SliderPrecision
           q == m \div Pow2(shift)
           r == m % Pow2(shift)
           half == Pow2(shift - 1)
       IN IF r > half \/ (r = half /\ q % 2 = 1)
          THEN FlNorm(q + 1, e + shift)
          ELSE FlNorm(q, e + shift)

FlInt(n) == FlRound(n, 0)

\* one more than the position of the leading bit
FlTop(a) == a.e + BitLength(a.m)

\* a and b as whole multiples of the smaller of their units
FlAligned(a, b) ==
  LET unit == Min2(a.e, b.e)
  IN [a |-> a.m * Pow2(a.e - unit), b |-> b.m * Pow2(b.e - unit), e |-> unit]

\* a <= b
FlLe(a, b) ==
  IF a.m = 0 THEN TRUE
  ELSE IF b.m = 0 THEN FALSE
  ELSE IF FlTop(a) # FlTop(b) THEN FlTop(a) < FlTop(b)
  ELSE FlAligned(a, b).a <= FlAligned(a, b).b

FlLt(a, b) == ~FlLe(b, a)

\* a + b: an operand below a quarter of the other's last place is rounded away
FlPlus(a, b) ==
  IF a.m = 0 THEN b
  ELSE IF b.m = 0 THEN a
  ELSE IF FlTop(a) - FlTop(b) > SliderPrecision + 2 THEN a
  ELSE IF FlTop(b) - FlTop(a) > SliderPrecision + 2 THEN b
  ELSE LET al == FlAligned(a, b) IN FlRound(al.a + al.b, al.e)

\* a - b for a >= b
FlMinus(a, b) ==
  IF b.m = 0 THEN a
  ELSE IF FlTop(a) - FlTop(b) > SliderPrecision + 2 THEN a
  ELSE LET al == FlAligned(a, b) IN FlRound(al.a - al.b, al.e)

FlTimes(a, b) == FlRound(a.m * b.m, a.e + b.e)

\* a / b for b > 0: the quotient to two bits more than the precision, and a
\* last bit telling that a remainder was left
FlOver(a, b) ==
  IF a.m = 0 THEN a
  ELSE LET k == SliderPrecision + 2 + BitLength(b.m) - BitLength(a.m)
           n == a.m * Pow2(k)
           q == n \div b.m
           sticky == IF n % b.m = 0 THEN 0 ELSE 1
       IN FlRound(2 * q + sticky, a.e - b.e - k - 1)

\* the number a decimal literal or a slider position p/q stands for
FlRatio(p, q) == FlOver(FlInt(p), FlInt(q))

SLIDER_RANGES ==
  [FIRST_RANGE |-> [sliderMax |-> FlRatio(1, 2), radiusMin |-> FlInt(12),
                    radiusMax |-> FlInt(500)],
   SECOND_RANGE |-> [sliderMax |-> FlRatio(3, 4), radiusMin |-> FlInt(500),
                     radiusMax |-> FlInt(1000)],
   THIRD_RANGE |-> [sliderMax |-> FlInt(1), radiusMin |-> FlInt(1000),
                    radiusMax |-> FlInt(5000)]]

Quarter == FlRatio(1, 4)

\* the three branches of sliderToRadius
FirstRangeRadius(t) ==
  LET localT == FlOver(t, SLIDER_RANGES.FIRST_RANGE.sliderMax)
  IN FlPlus(SLIDER_RANGES.FIRST_RANGE.radiusMin,
            FlTimes(localT, FlMinus(SLIDER_RANGES.FIRST_RANGE.radiusMax,
                                    SLIDER_RANGES.FIRST_RANGE.radiusMin)))

\* a second branch that starts again from the first range's smallest radius
SecondRangeRadiusFromFirstMin(t) ==
  LET localT == FlOver(FlMinus(t, SLIDER_RANGES.FIRST_RANGE.sliderMax), Quarter)
  IN FlPlus(SLIDER_RANGES.FIRST_RANGE.radiusMin,
            FlTimes(localT, FlMinus(SLIDER_RANGES.SECOND_RANGE.radiusMax,
                                    SLIDER_RANGES.SECOND_RANGE.radiusMin)))

SecondRangeRadius(t) ==
  LET localT == FlOver(FlMinus(t, SLIDER_RANGES.FIRST_RANGE.sliderMax), Quarter)
  IN FlPlus(SLIDER_RANGES.SECOND_RANGE.radiusMin,
            FlTimes(localT, FlMinus(SLIDER_RANGES.SECOND_RANGE.radiusMax,
                                    SLIDER_RANGES.SECOND_RANGE.radiusMin)))

ThirdRangeRadius(t) ==
  LET localT == FlOver(FlMinus(t, SLIDER_RANGES.SECOND_RANGE.sliderMax), Quarter)
  IN FlPlus(SLIDER_RANGES.THIRD_RANGE.radiusMin,
            FlTimes(localT, FlMinus(SLIDER_RANGES.THIRD_RANGE.radiusMax,
                                    SLIDER_RANGES.THIRD_RANGE.radiusMin)))

sliderToRadius(t) ==
  IF FlLe(t, SLIDER_RANGES.FIRST_RANGE.sliderMax) THEN FirstRangeRadius(t)
  ELSE IF FlLe(t, SLIDER_RANGES.SECOND_RANGE.sliderMax) THEN SecondRangeRadius(t)
  ELSE ThirdRangeRadius(t)

\* an inverse whose second range spans half of the slider
radiusToSliderWideSecondRange(r) ==
  IF FlLe(r, SLIDER_RANGES.FIRST_RANGE.radiusMax)
  THEN FlTimes(FlOver(FlMinus(r, SLIDER_RANGES.FIRST_RANGE.radiusMin),
                      FlMinus(SLIDER_RANGES.FIRST_RANGE.radiusMax,
                              SLIDER_RANGES.FIRST_RANGE.radiusMin)),
               SLIDER_RANGES.FIRST_RANGE.sliderMax)
  ELSE IF FlLe(r, SLIDER_RANGES.SECOND_RANGE.radiusMax)
  THEN FlPlus(SLIDER_RANGES.FIRST_RANGE.sliderMax,
              FlTimes(FlOver(FlMinus(r, SLIDER_RANGES.SECOND_RANGE.radiusMin),
                             FlMinus(SLIDER_RANGES.SECOND_RANGE.radiusMax,
                                     SLIDER_RANGES.SECOND_RANGE.radiusMin)),
                      SLIDER_RANGES.FIRST_RANGE.sliderMax))
  ELSE FlPlus(SLIDER_RANGES.SECOND_RANGE.sliderMax,
              FlTimes(FlOver(FlMinus(r, SLIDER_RANGES.THIRD_RANGE.radiusMin),
                             FlMinus(SLIDER_RANGES.THIRD_RANGE.radiusMax,
                                     SLIDER_RANGES.THIRD_RANGE.radiusMin)),
                      Quarter))

radiusToSlider(r) ==
  IF FlLe(r, SLIDER_RANGES.FIRST_RANGE.radiusMax)
  THEN FlTimes(FlOver(FlMinus(r, SLIDER_RANGES.FIRST_RANGE.radiusMin),
                      FlMinus(SLIDER_RANGES.FIRST_RANGE.radiusMax,
                              SLIDER_RANGES.FIRST_RANGE.radiusMin)),
               SLIDER_RANGES.FIRST_RANGE.sliderMax)
  ELSE IF FlLe(r, SLIDER_RANGES.SECOND_RANGE.radiusMax)
  THEN FlPlus(SLIDER_RANGES.FIRST_RANGE.sliderMax,
              FlTimes(FlOver(FlMinus(r, SLIDER_RANGES.SECOND_RANGE.radiusMin),
                             FlMinus(SLIDER_RANGES.SECOND_RANGE.radiusMax,
                                     SLIDER_RANGES.SECOND_RANGE.radiusMin)),
                      Quarter))
  ELSE FlPlus(SLIDER_RANGES.SECOND_RANGE.sliderMax,
              FlTimes(FlOver(FlMinus(r, SLIDER_RANGES.THIRD_RANGE.radiusMin),
                             FlMinus(SLIDER_RANGES.THIRD_RANGE.radiusMax,
                                     SLIDER_RANGES.THIRD_RANGE.radiusMin)),
                      Quarter))

(***************************************************************************)
(* Specification of the slider mapping                                     *)
(***************************************************************************)
AlphaSliderSteps == 200

\* the positions of the slider (step 0.005)
SliderSteps == {FlRatio(k, AlphaSliderSteps) : k \in 0..AlphaSliderSteps}

\* neighbouring numbers just below the first boundary, and small numbers
FineInputs ==
  {FlRound(Pow2(SliderPrecision) - j, 0 - (SliderPrecision + 1)) : j \in 0..MaxFine}
  \cup {FlRound(1, 0 - k) : k \in 1..MaxTinyExponent}

SliderInputs == SliderSteps \cup FineInputs

NoSlider == [m |-> 0, e |-> 0]

InitSlider ==
  /\ points = <<>>
  /\ delaunay = NoDelaunay
  /\ alpha \in SliderInputs
  /\ mode = "alpha-shape"
  /\ candidateEdges = <<>>
  /\ called = "none"
  /\ out = NoResult
  /\ ui = NoUi
  /\ session = NoSession

CallSliderToRadius ==
  /\ called = "none"
  /\ called' = "sliderToRadius"
  /\ out' = [slider |-> alpha, radius |-> sliderToRadius(alpha)]
  /\ UNCHANGED <<points, delaunay, alpha, mode, candidateEdges, ui, session>>

CallRadiusToSlider ==
  /\ called = "sliderToRadius"
  /\ called' = "radiusToSlider"
  /\ out' = [slider |-> out.slider, radius |-> out.radius,
             back |-> radiusToSlider(out.radius)]
  /\ UNCHANGED <<points, delaunay, alpha, mode, candidateEdges, ui, session>>

NextSlider == CallSliderToRadius \/ CallRadiusToSlider

SpecSlider == InitSlider /\ [][NextSlider]_vars

RoundTripDone == called = "radiusToSlider"

\* C13 as stated: radiusToSlider(sliderToRadius(t)) is t
C13_AsStated == RoundTripDone => out.back = out.slider

\* the distance of a and b
FlDistance(a, b) == IF FlLe(a, b) THEN FlMinus(b, a) ELSE FlMinus(a, b)

\* the spacing of the numbers between 0.5 and 1
SpacingBelowOne == FlRound(1, 0 - SliderPrecision)

SliderKnots == {FlInt(0), FlRatio(1, 2), FlRatio(3, 4), FlInt(1)}

\* C13: radiusToSlider(sliderToRadius(t)) is within the spacing of the
\* numbers below 1 of t, and is t at the knots 0, 0.5, 0.75 and 1
C13_WithinRounding ==
  RoundTripDone =>
    /\ FlLe(FlDistance(out.back, out.slider), SpacingBelowOne)
    /\ out.slider \in SliderKnots => out.back = out.slider

\* a slider position comes back as a neighbouring number
C13_Witness ==
  /\ RoundTripDone
  /\ out.slider \in SliderSteps
  /\ out.back # out.slider
  /\ FlLe(FlDistance(out.back, out.slider), SpacingBelowOne)


SliderCalled == called = "sliderToRadius"

\* the radius of every input
RadiusTable == Strict([t \in SliderInputs |-> sliderToRadius(t)])

\* the values at the knots, and the agreement of the adjacent branches there
KnotsExact ==
  /\ sliderToRadius(FlInt(0)) = FlInt(12)
  /\ sliderToRadius(FlRatio(1, 2)) = FlInt(500)
  /\ sliderToRadius(FlRatio(3, 4)) = FlInt(1000)
  /\ sliderToRadius(FlInt(1)) = FlInt(5000)
  /\ FirstRangeRadius(FlRatio(1, 2)) = SecondRangeRadius(FlRatio(1, 2))
  /\ SecondRangeRadius(FlRatio(3, 4)) = ThirdRangeRadius(FlRatio(3, 4))

\* C14 as stated: the knots are exact, the branches agree at the boundaries,
\* and a larger slider value always gives a larger radius
C14_AsStated ==
  SliderCalled =>
    /\ KnotsExact
    /\ \A t \in SliderInputs :
         FlLt(out.slider, t) => FlLt(out.radius, RadiusTable[t])

\* C14: sliderToRadius is 12, 500, 1000, 5000 at 0, 0.5, 0.75, 1; at each
\* boundary the two adjacent branches give the same radius; a larger slider
\* value never gives a smaller radius, and a larger slider position (a
\* multiple of the step 0.005) gives a larger radius
C14_Monotone ==
  SliderCalled =>
    /\ KnotsExact
    /\ \A t \in SliderInputs :
         FlLt(out.slider, t) =>
           /\ FlLe(out.radius, RadiusTable[t])
           /\ (out.slider \in SliderSteps /\ t \in SliderSteps) =>
                FlLt(out.radius, RadiusTable[t])

\* the mapping was taken at the first boundary
C14_Witness ==
  /\ SliderCalled
  /\ out.slider = FlRatio(1, 2)
  /\ out.radius = FlInt(500)


(***************************************************************************)
(* A sequence of calls of computeDerivedStructures.  Delaunay.from is a    *)
(* function of the points: which arrays it builds for each point sequence  *)
(* is fixed for the whole sequence of calls (session.provider).  The       *)
(* caller may keep the inputs and the bundle of one call (session.kept);   *)
(* session.kept.other tells that a call with other inputs came after it.   *)
(***************************************************************************)
SessionPointSets ==
  {MkPoints(<< <<Num(0), Num(0)>>, <<Num(1), Num(0)>>, <<Num(0), Num(1)>> >>),
   MkPoints(<< <<Num(0), Num(0)>>, <<Num(1), Num(0)>>, <<Num(0), Num(1)>>,
               <<Num(1), Num(1)>> >>)}

\* the arrays a provider may build for n points: one triangle for three
\* points, one or two triangles for four
SessionArrays(n) ==
  IF n = 3
  THEN {[triangles |-> <<0, 1, 2>>, halfedges |-> <<-1, -1, -1>>]}
  ELSE {[triangles |-> <<0, 1, 2>>, halfedges |-> <<-1, -1, -1>>],
        [triangles |-> <<0, 1, 2, 2, 1, 3>>, halfedges |-> <<-1, 3, -1, 1, -1, -1>>]}

SessionProviders ==
  {f \in [SessionPointSets -> ProviderFamily] :
     \A pts \in SessionPointSets : f[pts] \in SessionArrays(Len(pts))}

\* a radius below and a radius above the circumradius of the unit triangles
SessionAlphas == {Num(0), Num(1)}

NotKept == [set |-> FALSE]

InitSession ==
  /\ points \in SessionPointSets
  /\ \E f \in SessionProviders :
       /\ session = [open |-> TRUE, provider |-> f, kept |-> NotKept]
       /\ delaunay = f[points]
  /\ alpha \in SessionAlphas
  /\ mode \in GraphModes
  /\ candidateEdges = <<>>
  /\ called = "none"
  /\ out = NoResult
  /\ ui = NoUi

\* a call: the provider builds the arrays of these points, and the bundle is
\* what computeDerivedStructures returns for them
CallInSession(pts, a, m) ==
  LET del == session.provider[pts]
      same == session.kept.set /\ session.kept.points = pts
              /\ session.kept.alpha = a /\ session.kept.mode = m
  IN /\ points' = pts
     /\ alpha' = a
     /\ mode' = m
     /\ delaunay' = del
     /\ called' = "computeDerivedStructures"
     /\ out' = computeDerivedStructures(pts, del, a, m)
     /\ session' = IF session.kept.set /\ ~same
                   THEN [session EXCEPT !.kept.other = TRUE]
                   ELSE session
     /\ UNCHANGED <<candidateEdges, ui>>

\* the caller keeps the inputs and the bundle of the call just made
KeepBundle ==
  /\ DerivedCalled
  /\ session' = [session EXCEPT !.kept =
                   [set |-> TRUE, points |-> points, alpha |-> alpha, mode |-> mode,
                    out |-> out, other |-> FALSE]]
  /\ UNCHANGED <<points, delaunay, alpha, mode, candidateEdges, called, out, ui>>

NextSession ==
  \/ \E pts \in SessionPointSets : \E a \in SessionAlphas : \E m \in GraphModes :
       CallInSession(pts, a, m)
  \/ KeepBundle

SpecSession == InitSession /\ [][NextSession]_vars

\* the call just made has the inputs of the kept one
SameInputsAsKept ==
  /\ session.open
  /\ session.kept.set
  /\ DerivedCalled
  /\ session.kept.points = points
  /\ session.kept.alpha = alpha
  /\ session.kept.mode = mode

CoreFunctions ==
  {"collectDelaunayEdges", "computeAlphaData", "computeNearestNeighborEdges",
   "computeGabrielEdges", "computeRelativeNeighborhoodEdges",
   "computeMinimumSpanningTreeEdges", "computeDerivedStructures"}

\* filters that drop the rejected candidates from the list they were given
ReceivedAfterFilteredInPlace(fn, received) ==
  LET result == IF fn = "computeGabrielEdges"
                THEN computeGabrielEdges(received.points, received.candidates)
                ELSE computeRelativeNeighborhoodEdges(received.points, received.candidates)
  IN IF fn \in {"computeGabrielEdges", "computeRelativeNeighborhoodEdges"} /\ ~result.threw
     THEN [received EXCEPT !.candidates = result.edges]
     ELSE received

\* the objects a call received, as the call leaves them: every push, add,
\* set and indexed assignment of the functions targets an array, a Set or a
\* Map created inside the call (edges, seen, alphaTriangles, edgeCount,
\* result, visited, distances, parent), and each returned pair or triple is
\* a new array
ReceivedAfter(fn, received) == received

CorePointSets ==
  {<<>>, MkPoints(<< <<Num(0), Num(0)>> >>)} \cup SessionPointSets

\* candidate lists: Delaunay edges smaller index first, and lists holding a
\* pair with its larger index first
CoreCandidates(n) ==
  {c \in {<<>>, << <<0, 1>> >>, << <<1, 2>>, <<0, 2>> >>, PairList(3),
          << <<1, 0>> >>, << <<0, 1>>, <<2, 0>> >>} :
     \A k \in 1..Len(c) : c[k][1] < n /\ c[k][2] < n}

MaxEdgeIndex == 11

\* a call on the caller's objects, or a lone index pair to build a key from
InitCore ==
  /\ \/ /\ points \in CorePointSets
        /\ delaunay \in ProviderArrays(Len(points))
        /\ candidateEdges \in CoreCandidates(Len(points))
        /\ alpha \in SessionAlphas
        /\ mode \in GraphModes
     \/ /\ points = <<>>
        /\ delaunay = NoDelaunay
        /\ \E a, b \in 0..MaxEdgeIndex : candidateEdges = << <<a, b>> >>
        /\ alpha = Num(0)
        /\ mode = "voronoi"
  /\ called = "none"
  /\ out = NoResult
  /\ ui = NoUi
  /\ session = NoSession

\* a call of fn returning result
CallCore(fn, result) ==
  LET after == ReceivedAfter(fn, [points |-> points, candidates |-> candidateEdges,
                                  delaunay |-> delaunay])
  IN /\ called = "none"
     /\ called' = fn
     /\ out' = result
     /\ points' = after.points
     /\ candidateEdges' = after.candidates
     /\ delaunay' = after.delaunay
     /\ UNCHANGED <<alpha, mode, ui, session>>

CoreCollect ==
  CallCore("collectDelaunayEdges", [edges |-> collectDelaunayEdges(delaunay)])

CoreAlpha == CallCore("computeAlphaData", computeAlphaData(points, delaunay, alpha))

CoreNearest ==
  CallCore("computeNearestNeighborEdges", [edges |-> computeNearestNeighborEdges(points)])

CoreGabriel == CallCore("computeGabrielEdges", computeGabrielEdges(points, candidateEdges))

CoreRelative ==
  CallCore("computeRelativeNeighborhoodEdges",
           computeRelativeNeighborhoodEdges(points, candidateEdges))

CoreMst ==
  CallCore("computeMinimumSpanningTreeEdges",
           [edges |-> computeMinimumSpanningTreeEdges(points)])

CoreDerived ==
  CallCore("computeDerivedStructures",
           computeDerivedStructures(points, delaunay, alpha, mode))

\* edgeKey of the first candidate's two indices, and decodeEdgeKey of the key
CoreEdgeKey ==
  /\ called = "none"
  /\ Len(candidateEdges) > 0
  /\ called' = "edgeKey"
  /\ out' = [key |-> edgeKey(candidateEdges[1][1], candidateEdges[1][2]),
             edge |-> decodeEdgeKey(edgeKey(candidateEdges[1][1], candidateEdges[1][2]))]
  /\ UNCHANGED <<points, delaunay, alpha, mode, candidateEdges, ui, session>>

NextCore ==
  \/ CoreEdgeKey
  \/ CoreCollect
  \/ CoreAlpha
  \/ CoreNearest
  \/ CoreGabriel
  \/ CoreRelative
  \/ CoreMst
  \/ CoreDerived

SpecCore == InitCore /\ [][NextCore]_vars

IsCanonical(e) == e[1] <= e[2]

AllCanonical(edges) == \A k \in 1..Len(edges) : IsCanonical(edges[k])

\* what edgeKey and decodeEdgeKey give for a pair, in either order
KeyIsCanonical ==
  called = "edgeKey" =>
    LET a == candidateEdges[1][1]
        b == candidateEdges[1][2]
    IN /\ out.edge = <<Min2(a, b), Max2(a, b)>>
       /\ out.key = edgeKey(b, a)
       /\ decodeEdgeKey(edgeKey(b, a)) = out.edge

\* the builders that make their pairs with Math.min and Math.max or from keys
BuildersEmitCanonical ==
  /\ called \in {"collectDelaunayEdges", "computeNearestNeighborEdges",
                 "computeMinimumSpanningTreeEdges"} => AllCanonical(out.edges)
  /\ (called = "computeAlphaData" /\ ~out.threw) =>
       AllCanonical(out.allEdges) /\ AllCanonical(out.boundaryEdges)

FilterCalled == called \in {"computeGabrielEdges", "computeRelativeNeighborhoodEdges"}

DEFAULT_WIDTH == 960
DEFAULT_HEIGHT == 600
POINT_RADIUS == 10
HIT_DISTANCE_MULTIPLIER == 2
MIN_CANVAS_DIMENSION == 320
SEED_SLIDER_MIN == 1
SEED_SLIDER_MAX == 100
DEFAULT_SEED_COUNT == 10

GRAPH_MODE_OPTIONS ==
  <<"voronoi", "alpha-shape", "alpha-complex", "nn-crust", "gabriel", "rng", "mst">>

\* createInitialPoints(DEFAULT_WIDTH, DEFAULT_HEIGHT): the positions the ten
\* seeds and their jitter give, to the nearest pixel; ids are the indices
InitialPixels ==
  << <<115, 147>>, <<413, 88>>, <<544, 146>>, <<794, 225>>, <<197, 308>>,
     <<436, 277>>, <<667, 286>>, <<96, 440>>, <<403, 442>>, <<715, 440>> >>

createInitialPoints ==
  [index \in 1..Len(InitialPixels) |->
     [id |-> index - 1, x |-> InitialPixels[index][1], y |-> InitialPixels[index][2]]]

\* the options marked disabled: true
DisabledOptions == {"nn-crust", "gabriel", "rng", "mst"}

\* a click handler that sets the mode of any option
ModeAfterClickAnyOption(current, option) == option

\* onClick of a mode button: !isDisabled && setMode(option.value)
ModeAfterClick(current, option) ==
  IF option \in DisabledOptions THEN current ELSE option

clamp(value, min, max) == Max2(min, Min2(max, value))

\* Math.hypot(px - x, py - y) <= POINT_RADIUS * HIT_DISTANCE_MULTIPLIER
WithinHitDistance(px, py, x, y) ==
  (px - x) * (px - x) + (py - y) * (py - y)
    <= (POINT_RADIUS * HIT_DISTANCE_MULTIPLIER) * (POINT_RADIUS * HIT_DISTANCE_MULTIPLIER)

\* the last point within the hit distance, or -1
RECURSIVE FindFrom(_, _, _, _)
FindFrom(pts, index, x, y) ==
  IF index < 0 THEN -1
  ELSE IF WithinHitDistance(PointAt(pts, index).x, PointAt(pts, index).y, x, y) THEN index
  ELSE FindFrom(pts, index - 1, x, y)

\* a search that finds no point anywhere
findPointByPositionNever(pts, x, y) == -1

findPointByPosition(pts, x, y) == FindFrom(pts, Len(pts) - 1, x, y)

None == [set |-> FALSE]
Some(v) == [set |-> TRUE, v |-> v]

MaxEvents == 3
MaxSeedCount == 12
MaxSeedStep == 2

\* where the pointer is sampled (clientX - rect.left, clientY - rect.top):
\* on the first initial point, on empty canvas, 10 pixels from that, outside
PointerSamples == {<<120, 150>>, <<480, 10>>, <<490, 10>>, <<-10, 700>>}

\* where Math.random() puts a new seed: fractions of the width and height
RandomFractions == {<<1, 4>>, <<3, 4>>}

Buttons == {0, 1, 2}

\* container sizes reported by the ResizeObserver
ContainerSizes == {<<DEFAULT_WIDTH, DEFAULT_HEIGHT>>, <<2 * DEFAULT_WIDTH, 2 * DEFAULT_HEIGHT>>}

InitUI ==
  /\ points = createInitialPoints
  /\ delaunay = NoDelaunay
  /\ alpha = Num(0)
  /\ mode = "voronoi"
  /\ candidateEdges = <<>>
  /\ called = "none"
  /\ out = NoResult
  /\ ui = [mounted |-> TRUE,
           idCounter |-> Len(GRAPH_MODE_OPTIONS),
           seedCount |-> DEFAULT_SEED_COUNT,
           size |-> [width |-> DEFAULT_WIDTH, height |-> DEFAULT_HEIGHT],
           previousSize |-> [width |-> DEFAULT_WIDTH, height |-> DEFAULT_HEIGHT],
           drag |-> None,
           ghost |-> None,
           ghostDrag |-> None,
           lastClick |-> None,
           last |-> "none",
           events |-> 0]
  /\ session = NoSession

\* an event is handled: the count of handled events, which bounds the run,
\* and the event it was
Handled(u, event) == [u EXCEPT !.events = u.events + 1, !.last = event]

\* the pointers that can be down at the same time (two fingers, or a mouse
\* and a finger)
Pointers == {1, 2}

\* the event is dispatched to the canvas: its position is over the canvas
OverCanvas(cx, cy) ==
  /\ 0 <= cx /\ cx <= ui.size.width
  /\ 0 <= cy /\ cy <= ui.size.height

\* handleGhostPointerDown: ghostDragRef after a press of the pointer
GhostDragAfterDown(pointer, button, cx, cy) ==
  IF /\ button = 0
     /\ ui.ghost.set
     /\ WithinHitDistance(ui.ghost.v.x, ui.ghost.v.y, cx, cy)
  THEN Some([pointerId |-> pointer,
             offsetX |-> ui.ghost.v.x - cx, offsetY |-> ui.ghost.v.y - cy])
  ELSE ui.ghostDrag

\* pointerdown: handleGhostPointerDown (capture) and then handlePointerDown
PointerDown(pointer, button, cx, cy) ==
  LET ghostDrag == GhostDragAfterDown(pointer, button, cx, cy)
      x == clamp(cx, 0, ui.size.width)
      y == clamp(cy, 0, ui.size.height)
      onGhost == ui.ghost.set /\ WithinHitDistance(ui.ghost.v.x, ui.ghost.v.y, x, y)
      hitIndex == findPointByPosition(points, x, y)
      after == [ui EXCEPT !.ghostDrag = ghostDrag]
  IN /\ ui.events < MaxEvents
     /\ OverCanvas(cx, cy)
     /\ IF button = 2 \/ ghostDrag.set \/ onGhost
        THEN /\ ui' = Handled(after, "pointerdown")
             /\ points' = points
        ELSE IF hitIndex >= 0
        THEN /\ ui' = Handled([after EXCEPT !.drag =
                        Some([pointerId |-> pointer,
                              index |-> hitIndex,
                              offsetX |-> PointAt(points, hitIndex).x - x,
                              offsetY |-> PointAt(points, hitIndex).y - y])],
                        "pointerdown")
             /\ points' = points
        ELSE /\ points' = Append(points, [id |-> ui.idCounter, x |-> x, y |-> y])
             /\ ui' = Handled([after EXCEPT !.idCounter = ui.idCounter + 1], "pointerdown")
     /\ UNCHANGED <<delaunay, alpha, mode, candidateEdges, called, out, session>>

\* handlePointerMove's new point, with the position added to the offset
\* before any clamping
DraggedPointUnclampedCursor(point, dragState, cx, cy) ==
  [point EXCEPT !.x = clamp(cx + dragState.offsetX, 0, ui.size.width),
                !.y = clamp(cy + dragState.offsetY, 0, ui.size.height)]

\* handlePointerMove's new point: getRelativePosition clamps the cursor to
\* the canvas, and the sum with the offset is clamped again
DraggedPoint(point, dragState, cx, cy) ==
  LET x == clamp(cx, 0, ui.size.width)
      y == clamp(cy, 0, ui.size.height)
  IN [point EXCEPT !.x = clamp(x + dragState.offsetX, 0, ui.size.width),
                   !.y = clamp(y + dragState.offsetY, 0, ui.size.height)]

\* pointermove: handleGhostPointerMove and handlePointerMove
PointerMove(pointer, cx, cy) ==
  LET ghost == IF ui.ghostDrag.set /\ ui.ghostDrag.v.pointerId = pointer
               THEN Some([x |-> clamp(cx + ui.ghostDrag.v.offsetX, 0, ui.size.width),
                          y |-> clamp(cy + ui.ghostDrag.v.offsetY, 0, ui.size.height)])
               ELSE ui.ghost
  IN /\ ui.events < MaxEvents
     /\ ui' = Handled([ui EXCEPT !.ghost = ghost], "pointermove")
     /\ IF /\ ui.drag.set
           /\ ui.drag.v.pointerId = pointer
           /\ HasPoint(points, ui.drag.v.index)
        THEN points' = [points EXCEPT ![ui.drag.v.index + 1] =
                          DraggedPoint(@, ui.drag.v, cx, cy)]
        ELSE points' = points
     /\ UNCHANGED <<delaunay, alpha, mode, candidateEdges, called, out, session>>

\* releasePointer: dragRef after the pointer is released
DragAfterRelease(pointer) ==
  IF ui.drag.set /\ ui.drag.v.pointerId = pointer THEN None ELSE ui.drag

\* releaseGhostPointer: ghostDragRef after the pointer is released
GhostDragAfterRelease(pointer) ==
  IF ui.ghostDrag.set /\ ui.ghostDrag.v.pointerId = pointer THEN None ELSE ui.ghostDrag

\* pointerup, pointercancel: releaseGhostPointer and releasePointer
PointerUp(pointer) ==
  /\ ui.events < MaxEvents
  /\ ui' = Handled([ui EXCEPT !.drag = DragAfterRelease(pointer),
                              !.ghostDrag = GhostDragAfterRelease(pointer)], "pointerup")
  /\ UNCHANGED <<points, delaunay, alpha, mode, candidateEdges, called, out, session>>

\* pointerleave: releasePointer
PointerLeave(pointer) ==
  /\ ui.events < MaxEvents
  /\ ui' = Handled([ui EXCEPT !.drag = DragAfterRelease(pointer)], "pointerleave")
  /\ UNCHANGED <<points, delaunay, alpha, mode, candidateEdges, called, out, session>>

\* a context menu handler that places the ghost wherever the click is
GhostAfterContextMenuAlwaysPlaced(ghost, x, y) == Some([x |-> x, y |-> y])

\* handleContextMenu: the ghost point after a right-click at (x, y)
GhostAfterContextMenu(ghost, x, y) ==
  IF ghost.set /\ WithinHitDistance(ghost.v.x, ghost.v.y, x, y)
  THEN None
  ELSE Some([x |-> x, y |-> y])

\* contextmenu: handleContextMenu
ContextMenu(cx, cy) ==
  /\ ui.events < MaxEvents
  /\ OverCanvas(cx, cy)
  /\ ui' = Handled([ui EXCEPT !.ghost = GhostAfterContextMenu(ui.ghost, cx, cy)],
                   "contextmenu")
  /\ UNCHANGED <<points, delaunay, alpha, mode, candidateEdges, called, out, session>>

\* the seed-count effect's update of the points: draws are the values of
\* Math.random(), two for each new point
SeedEffectPoints(pts, seedCount, size, idCounter, draws) ==
  IF Len(pts) = seedCount THEN pts
  ELSE IF Len(pts) < seedCount
  THEN pts \o [n \in 1..(seedCount - Len(pts)) |->
                 [id |-> idCounter + n - 1,
                  x |-> (draws[n][1] * size.width) \div draws[n][2],
                  y |-> (draws[n][1] * size.height) \div draws[n][2]]]
  ELSE SubSeq(pts, 1, seedCount)

\* idCounterRef after the effect
SeedEffectCounter(pts, seedCount, idCounter) ==
  IF Len(pts) < seedCount THEN idCounter + (seedCount - Len(pts)) ELSE idCounter

DrawsFor(pts, seedCount) ==
  [1..Max2(0, seedCount - Len(pts)) -> RandomFractions]

\* the seed slider's onChange, and the seed-count effect that follows
SetSeedCount(k) ==
  /\ ui.events < MaxEvents
  /\ k \in SEED_SLIDER_MIN..Min2(SEED_SLIDER_MAX, MaxSeedCount)
  /\ k # ui.seedCount
  /\ k - ui.seedCount <= MaxSeedStep
  /\ ui.seedCount - k <= MaxSeedStep
  /\ \E draws \in DrawsFor(points, k) :
       /\ points' = SeedEffectPoints(points, k, ui.size, ui.idCounter, draws)
       /\ ui' = Handled([ui EXCEPT !.seedCount = k,
                                   !.idCounter = SeedEffectCounter(points, k, ui.idCounter)],
                        "seedcount")
  /\ UNCHANGED <<delaunay, alpha, mode, candidateEdges, called, out, session>>

\* point.x * scaleX with scaleX = size.width / previous.width; the sizes in
\* use make the product a whole number
ScalePoints(pts, size, previous) ==
  [n \in 1..Len(pts) |->
     [pts[n] EXCEPT !.x = (pts[n].x * size.width) \div previous.width,
                    !.y = (pts[n].y * size.height) \div previous.height]]

\* the ResizeObserver callback, then the effects that depend on the size: the
\* seed-count effect and the scaling of the points
Resize(width, height) ==
  LET nextWidth == Max2(MIN_CANVAS_DIMENSION, width)
      nextHeight == Max2(MIN_CANVAS_DIMENSION, height)
      next == [width |-> nextWidth, height |-> nextHeight]
  IN /\ ui.events < MaxEvents
     /\ IF ui.size = next
        THEN /\ ui' = Handled(ui, "resize")
             /\ points' = points
        ELSE \E draws \in DrawsFor(points, ui.seedCount) :
               /\ points' = ScalePoints(
                              SeedEffectPoints(points, ui.seedCount, next, ui.idCounter, draws),
                              next, ui.previousSize)
               /\ ui' = Handled([ui EXCEPT
                           !.size = next,
                           !.previousSize = next,
                           !.idCounter = SeedEffectCounter(points, ui.seedCount, ui.idCounter)],
                          "resize")
     /\ UNCHANGED <<delaunay, alpha, mode, candidateEdges, called, out, session>>

\* a click on the n-th mode button
ClickMode(n) ==
  LET option == GRAPH_MODE_OPTIONS[n]
  IN /\ ui.events < MaxEvents
     /\ mode' = ModeAfterClick(mode, option)
     /\ ui' = Handled([ui EXCEPT !.lastClick = Some(option)], "click")
     /\ UNCHANGED <<points, delaunay, alpha, candidateEdges, called, out, session>>

NextUI ==
  \/ \E n \in 1..Len(GRAPH_MODE_OPTIONS) : ClickMode(n)
  \/ \E pointer \in Pointers : \E button \in Buttons : \E p \in PointerSamples :
       PointerDown(pointer, button, p[1], p[2])
  \/ \E pointer \in Pointers : \E p \in PointerSamples : PointerMove(pointer, p[1], p[2])
  \/ \E pointer \in Pointers : PointerUp(pointer)
  \/ \E pointer \in Pointers : PointerLeave(pointer)
  \/ \E p \in PointerSamples : ContextMenu(p[1], p[2])
  \/ \E k \in SEED_SLIDER_MIN..SEED_SLIDER_MAX : SetSeedCount(k)
  \/ \E c \in ContainerSizes : Resize(c[1], c[2])

SpecUI == InitUI /\ [][NextUI]_vars

\* C9: no two points of the sequence share an id, and an event that keeps
\* the number of points (a drag, a resize) keeps every point's id
C9_AsStated ==
  ui.mounted =>
    \A m, n \in 1..Len(points) : points[m].id = points[n].id => m = n

\* the modes whose option is not disabled
EnabledModes == {"voronoi", "alpha-shape", "alpha-complex"}

\* C17: the active mode is always voronoi, alpha-shape or alpha-complex, and
\* a click on a disabled option (nn-crust, gabriel, rng, mst) leaves the
\* mode as it was
C17_DisabledModesUnreachable ==
  /\ [](ui.mounted => mode \in EnabledModes)
  /\ [][\A n \in 1..Len(GRAPH_MODE_OPTIONS) :
          (ClickMode(n) /\ GRAPH_MODE_OPTIONS[n] \in DisabledOptions) => mode' = mode]_vars

\* the Gabriel button was clicked after an alpha mode was chosen
C17_Witness ==
  /\ ui.mounted
  /\ ui.lastClick = Some("gabriel")
  /\ mode = "alpha-complex"

\* C18: there is at most one ghost point; a right-click (contextmenu) within
\* the hit distance of the ghost removes it, and any other right-click puts
\* the ghost at the click position, replacing a ghost further away; neither
\* the contextmenu event nor the press of the right button changes the
\* point sequence
C18_GhostToggle ==
  /\ [](ui.mounted =>
          (ui.ghost.set => ui.ghost = Some([x |-> ui.ghost.v.x, y |-> ui.ghost.v.y])))
  /\ [][\A p \in PointerSamples :
          ContextMenu(p[1], p[2]) =>
            /\ points' = points
            /\ ui'.ghost =
                 IF ui.ghost.set /\ WithinHitDistance(ui.ghost.v.x, ui.ghost.v.y, p[1], p[2])
                 THEN None
                 ELSE Some([x |-> p[1], y |-> p[2]])]_vars
  /\ [][\A pointer \in Pointers : \A p \in PointerSamples :
          PointerDown(pointer, 2, p[1], p[2]) =>
            /\ points' = points
            /\ ui'.ghost = ui.ghost
            /\ ui'.drag = ui.drag]_vars

\* the second right-click fell on the ghost the first one made
C18_Witness ==
  /\ ui.mounted
  /\ ui.last = "contextmenu"
  /\ ui.events = 2
  /\ ~ui.ghost.set
  /\ Len(points) = Len(createInitialPoints)

\* the press at (x, y) is on the ghost point
OnGhost(x, y) == ui.ghost.set /\ WithinHitDistance(ui.ghost.v.x, ui.ghost.v.y, x, y)

\* some point of the sequence is within the hit distance of (x, y)
OnPoint(x, y) ==
  \E n \in 1..Len(points) : WithinHitDistance(points[n].x, points[n].y, x, y)

\* C19: a press of the left button where no point and no ghost is within
\* the hit distance, with no ghost drag active, appends one point at the
\* press position and leaves the points before it as they were; a left
\* press within the hit distance of a point, or on the ghost, adds no point
C19_LeftPressAdds ==
  [][\A pointer \in Pointers : \A p \in PointerSamples :
       PointerDown(pointer, 0, p[1], p[2]) =>
         /\ (~OnPoint(p[1], p[2]) /\ ~OnGhost(p[1], p[2]) /\ ~ui.ghostDrag.set) =>
              /\ Len(points') = Len(points) + 1
              /\ SubSeq(points', 1, Len(points)) = points
              /\ points'[Len(points')].x = p[1]
              /\ points'[Len(points')].y = p[2]
         /\ (OnPoint(p[1], p[2]) \/ OnGhost(p[1], p[2])) => points' = points]_vars

\* a press on the empty canvas has added the eleventh point there
C19_Witness ==
  /\ ui.mounted
  /\ ui.last = "pointerdown"
  /\ Len(points) = Len(createInitialPoints) + 1
  /\ SubSeq(points, 1, Len(createInitialPoints)) = createInitialPoints
  /\ points[Len(points)].x = 480
  /\ points[Len(points)].y = 10

\* the drag of the pointer is the one the handlers follow
DragHeldBy(pointer) == ui.drag.set /\ ui.drag.v.pointerId = pointer

\* the ids of the points, in order
IdsOf(pts) == [n \in 1..Len(pts) |-> pts[n].id]

TriangleEdges(t) ==
  {<<Min2(t[1], t[2]), Max2(t[1], t[2])>>,
   <<Min2(t[2], t[3]), Max2(t[2], t[3])>>,
   <<Min2(t[3], t[1]), Max2(t[3], t[1])>>}

\* the number of triangles of the sequence that have the edge
TrianglesWith(e, triangles) ==
  Cardinality({n \in 1..Len(triangles) : e \in TriangleEdges(triangles[n])})

NoRepeats(seq) == Cardinality(SeqToSet(seq)) = Len(seq)

\* C21: when computeAlphaData returns, allEdges lists once each the
\* canonical edges of the returned (qualifying) triangles, and boundaryEdges
\* lists once each those of them that exactly one returned triangle has; an
\* edge that two returned triangles have is in allEdges and not in
\* boundaryEdges
C21_EdgesOfQualifying ==
  (AlphaCalled /\ ~out.threw) =>
    LET E == UNION {TriangleEdges(out.triangles[n]) : n \in 1..Len(out.triangles)}
    IN /\ SeqToSet(out.allEdges) = E
       /\ NoRepeats(out.allEdges)
       /\ \A e \in E : e[1] < e[2]
       /\ SeqToSet(out.boundaryEdges) = {e \in E : TrianglesWith(e, out.triangles) = 1}
       /\ NoRepeats(out.boundaryEdges)
       /\ \A e \in E : TrianglesWith(e, out.triangles) >= 2 =>
            e \in SeqToSet(out.allEdges) \ SeqToSet(out.boundaryEdges)

\* the triangles 0-1-2 and 2-1-3 both qualify and share the edge 1-2
C21_Witness ==
  /\ AlphaCalled
  /\ ~out.threw
  /\ out.triangles = << <<0, 1, 2>>, <<2, 1, 3>> >>
  /\ out.allEdges = << <<0, 1>>, <<1, 2>>, <<0, 2>>, <<1, 3>>, <<2, 3>> >>
  /\ out.boundaryEdges = << <<0, 1>>, <<0, 2>>, <<1, 3>>, <<2, 3>> >>

\* the complete records of three slots of a triangle array, in order
RecordsOf(triangles) ==
  [n \in 1..(Len(triangles) \div 3) |->
     <<triangles[3 * n - 2], triangles[3 * n - 1], triangles[3 * n]>>]

\* three different indices, each of a point of the sequence
WellFormed(pts, t) ==
  /\ HasPoint(pts, t[1]) /\ HasPoint(pts, t[2]) /\ HasPoint(pts, t[3])
  /\ t[1] # t[2] /\ t[2] # t[3] /\ t[3] # t[1]

\* the circumradius of the triangle is finite and at most a
RadiusAtMost(pts, t, a) ==
  LET p0 == PointAt(pts, t[1])
      p1 == PointAt(pts, t[2])
      p2 == PointAt(pts, t[3])
      radius == circumradius(p0.x, p0.y, p1.x, p1.y, p2.x, p2.y)
  IN /\ radius.finite
     /\ NSign(a) >= 0
     /\ NLe(radius.num, NMul(NMul(a, a), radius.den))

\* C22: when computeAlphaData returns, the triangles it returns are the
\* well-formed records of the triangulation whose circumradius is finite
\* and at most alpha, in the order of the triangulation and with their
\* vertex order; a circumradius equal to alpha is at most alpha
C22_QualifyingTriangles ==
  (AlphaCalled /\ ~out.threw) =>
    out.triangles =
      SelectSeq(RecordsOf(delaunay.triangles),
                LAMBDA t : WellFormed(points, t) /\ RadiusAtMost(points, t, alpha))

\* the triangle with sides 6, 8, 10 is returned at alpha = 5, its circumradius
C22_Witness ==
  /\ AlphaCalled
  /\ ~out.threw
  /\ points = AlphaRightTriangle
  /\ alpha = Num(5)
  /\ out.triangles = << <<0, 1, 2>> >>


(***************************************************************************)
(* Specification of collectDelaunayEdges: one call on a triangulation of   *)
(* one or two triangles whose half-edge array pairs the half-edges in any  *)
(* way that is its own inverse                                             *)
(***************************************************************************)
\* largest number of triangles of a triangulation
MaxCollectTriangles == 2

\* triangles over four points, slots that repeat an index, and the
\* placeholder slot of a single point
CollectRecords ==
  {<<0, 1, 2>>, <<2, 1, 3>>, <<1, 0, 3>>, <<0, 2, 1>>, <<0, 1, 1>>, <<0, 0, 0>>, <<0, -1, -1>>}

RECURSIVE CollectTriangleArrays(_)
CollectTriangleArrays(k) ==
  IF k = 0 THEN {<<>>}
  ELSE LET shorter == CollectTriangleArrays(k - 1)
       IN shorter \cup {t \o r : t \in {s \in shorter : Len(s) = 3 * (k - 1)},
                                 r \in CollectRecords}

\* the ways to pair off some of the half-edge indices of S, two by two
RECURSIVE Matchings(_)
Matchings(S) ==
  IF S = {} THEN {{}}
  ELSE LET e == CHOOSE x \in S : \A y \in S : x <= y
       IN Matchings(S \ {e})
          \cup UNION {{m \cup {{e, f}} : m \in Matchings(S \ {e, f})} : f \in S \ {e}}

\* the half-edge array of a pairing: the partner of each paired index, -1
\* for the others
HalfedgesOf(n, m) ==
  Strict([i \in 1..n |->
            IF \E pair \in m : (i - 1) \in pair
            THEN CHOOSE o \in 0..(n - 1) : {i - 1, o} \in m
            ELSE -1])

CollectInputs ==
  UNION {{[triangles |-> t, halfedges |-> HalfedgesOf(Len(t), m)] :
            m \in Matchings(0..(Len(t) - 1))} :
         t \in CollectTriangleArrays(MaxCollectTriangles) \ {<<>>}}

InitCollect ==
  /\ points = <<>>
  /\ delaunay \in CollectInputs
  /\ alpha = Num(0)
  /\ mode = "voronoi"
  /\ candidateEdges = <<>>
  /\ called = "none"
  /\ out = NoResult
  /\ ui = NoUi
  /\ session = NoSession

CallCollect ==
  /\ called = "none"
  /\ called' = "collectDelaunayEdges"
  /\ out' = [edges |-> collectDelaunayEdges(delaunay)]
  /\ UNCHANGED <<points, delaunay, alpha, mode, candidateEdges, ui, session>>

NextCollect == CallCollect

SpecCollect == InitCollect /\ [][NextCollect]_vars

CollectCalled == called = "collectDelaunayEdges"

\* the two slots half-edge e joins
EndsOf(del, e) == {del.triangles[e + 1], del.triangles[nextHalfedge(e) + 1]}

\* halfedges[halfedges[e]] = e wherever halfedges[e] is not negative
PairingConsistent(del) ==
  \A e \in 0..(Len(del.halfedges) - 1) :
    LET o == del.halfedges[e + 1]
    IN o >= 0 => (o < Len(del.halfedges) /\ o # e /\ del.halfedges[o + 1] = e)

\* each paired half-edge joins the two points its partner joins
PairsOpposites(del) ==
  \A e \in 0..(Len(del.halfedges) - 1) :
    del.halfedges[e + 1] >= 0 => EndsOf(del, e) = EndsOf(del, del.halfedges[e + 1])

\* the edges of the triangles whose two ends differ, lower index first
EdgesOfTriangles(del) ==
  {<<Min2(del.triangles[e + 1], del.triangles[nextHalfedge(e) + 1]),
     Max2(del.triangles[e + 1], del.triangles[nextHalfedge(e) + 1])>> :
     e \in {h \in 0..(Len(del.triangles) - 1) :
              del.triangles[h + 1] # del.triangles[nextHalfedge(h) + 1]}}

\* C23: when the half-edge array pairs each half-edge with the opposite
\* half-edge of the same edge (or holds a negative number), the list
\* collectDelaunayEdges returns holds every edge of every triangle once,
\* lower index first, and no pair of equal indices
C23_EveryEdgeOnce ==
  (CollectCalled /\ PairingConsistent(delaunay) /\ PairsOpposites(delaunay)) =>
    /\ SeqToSet(out.edges) = EdgesOfTriangles(delaunay)
    /\ NoRepeats(out.edges)
    /\ \A n \in 1..Len(out.edges) : out.edges[n][1] < out.edges[n][2]

\* two triangles that share the edge 1-2 through paired half-edges: five edges
C23_Witness ==
  /\ CollectCalled
  /\ delaunay = [triangles |-> <<0, 1, 2, 2, 1, 3>>, halfedges |-> <<-1, 3, -1, 1, -1, -1>>]
  /\ out.edges = << <<0, 1>>, <<1, 2>>, <<0, 2>>, <<1, 3>>, <<2, 3>> >>


\* every index of every edge or triangle of the list is the position of a point
IndicesValid(pts, list) ==
  \A n \in 1..Len(list) : \A k \in 1..Len(list[n]) : HasPoint(pts, list[n][k])

\* C24 as stated: for every triangulation record of the provider, every
\* index in an edge collectDelaunayEdges returns, and in graphEdges and
\* alphaTriangles of computeDerivedStructures, is the position of a point
\* of the sequence
C24_AsStated ==
  /\ called = "collectDelaunayEdges" => IndicesValid(points, out.edges)
  /\ (called = "computeDerivedStructures" /\ ~out.threw)
       => (IndicesValid(points, out.graphEdges) /\ IndicesValid(points, out.alphaTriangles))


(***************************************************************************)
(* Specification of computeNearestNeighborEdges: one call on a sequence of *)
(* points of the grid, or of a position so far off that its squared        *)
(* distance to the grid is beyond MaxValue                                 *)
(***************************************************************************)
MaxNearestPoints == 4

NearestPositions == AlphaPositions \cup {<<Num(WideCoord), Num(0)>>}

NearestInputs == {MkPoints(pos) : pos \in SeqsUpTo(NearestPositions, MaxNearestPoints)}

InitNearest ==
  /\ points \in NearestInputs
  /\ delaunay = NoDelaunay
  /\ alpha = Num(0)
  /\ mode = "nn-crust"
  /\ candidateEdges = <<>>
  /\ called = "none"
  /\ out = NoResult
  /\ ui = NoUi
  /\ session = NoSession

CallNearest ==
  /\ called = "none"
  /\ called' = "computeNearestNeighborEdges"
  /\ out' = [edges |-> computeNearestNeighborEdges(points)]
  /\ UNCHANGED <<points, delaunay, alpha, mode, candidateEdges, ui, session>>

NextNearest == CallNearest

SpecNearest == InitNearest /\ [][NextNearest]_vars

NearestCalled == called = "computeNearestNeighborEdges"

\* the squared distance of two points as a number, whatever its size
ExactSquared(a, b) ==
  NAdd(NMul(NSub(a.x, b.x), NSub(a.x, b.x)), NMul(NSub(a.y, b.y), NSub(a.y, b.y)))

Canonical(i, j) == <<Min2(i, j), Max2(i, j)>>

\* the indices of the points other than point i
Others(pts, i) == (0..(Len(pts) - 1)) \ {i}

\* the lowest index among the other points at the least squared distance of
\* point i
LowestNearest(pts, i) ==
  CHOOSE j \in Others(pts, i) :
    \A k \in Others(pts, i) :
      LET dj == ExactSquared(PointAt(pts, i), PointAt(pts, j))
          dk == ExactSquared(PointAt(pts, i), PointAt(pts, k))
      IN NLe(dj, dk) /\ (k < j => NLt(dj, dk))

\* C25 as stated: for two points or more the result is the set of the
\* canonical edges (i, nearest(i)) over all i, nearest(i) being the lowest
\* index j # i at the least squared distance of point i, each edge once;
\* for fewer than two points it is empty
C25_AsStated ==
  NearestCalled =>
    IF Len(points) < 2 THEN out.edges = <<>>
    ELSE /\ SeqToSet(out.edges)
              = {Canonical(i, LowestNearest(points, i)) : i \in 0..(Len(points) - 1)}
         /\ NoRepeats(out.edges)

\* some other point is at a squared distance of point i that the
\* arithmetic of distanceSquared keeps finite
HasFiniteNeighbour(pts, i) ==
  \E j \in Others(pts, i) : ~distanceSquared(PointAt(pts, i), PointAt(pts, j)).inf

\* the lowest index among the other points at the least computed squared
\* distance of point i
LowestNearestComputed(pts, i) ==
  CHOOSE j \in Others(pts, i) :
    \A k \in Others(pts, i) :
      LET dj == distanceSquared(PointAt(pts, i), PointAt(pts, j))
          dk == distanceSquared(PointAt(pts, i), PointAt(pts, k))
      IN DLe(dj, dk) /\ (k < j => DLt(dj, dk))

\* C25: for two points or more the result is the set of the canonical edges
\* (i, nearest(i)) over the points i that have another point at a finite
\* computed squared distance, nearest(i) being the lowest index j # i at
\* the least computed squared distance, each edge once; a point whose
\* computed squared distance to every other point is Infinity gives no
\* edge; for fewer than two points the result is empty
C25_NearestEdges ==
  NearestCalled =>
    IF Len(points) < 2 THEN out.edges = <<>>
    ELSE /\ SeqToSet(out.edges)
              = {Canonical(i, LowestNearestComputed(points, i)) :
                   i \in {h \in 0..(Len(points) - 1) : HasFiniteNeighbour(points, h)}}
         /\ NoRepeats(out.edges)

\* three points in a row one pixel apart: the middle one is as near to the
\* first as to the last and takes the first, which takes it in turn
C25_Witness ==
  /\ NearestCalled
  /\ points = MkPoints(<< <<Num(0), Num(0)>>, <<Num(1), Num(0)>>, <<Num(2), Num(0)>> >>)
  /\ out.edges = << <<0, 1>>, <<1, 2>> >>

\* the indices the edges touch
Touched(edges) == UNION {{edges[n][1], edges[n][2]} : n \in 1..Len(edges)}

\* C28 as stated: for two points or more the edges touch every point index
\* and hold no cycle, and there are between ceil(n/2) and n-1 of them
C28_AsStated ==
  (NearestCalled /\ Len(points) >= 2) =>
    /\ Touched(out.edges) = 0..(Len(points) - 1)
    /\ AcyclicSeq(Len(points), out.edges)
    /\ 2 * Len(out.edges) >= Len(points)
    /\ Len(out.edges) <= Len(points) - 1

\* C28: for two points or more the edges hold no cycle and touch every
\* point index that has another point at a finite computed squared
\* distance (and no other index); when every index is touched there are
\* between ceil(n/2) and n-1 edges
C28_NearestForest ==
  (NearestCalled /\ Len(points) >= 2) =>
    /\ AcyclicSeq(Len(points), out.edges)
    /\ Touched(out.edges) = {i \in 0..(Len(points) - 1) : HasFiniteNeighbour(points, i)}
    /\ Len(out.edges) <= Len(points) - 1
    /\ Touched(out.edges) = 0..(Len(points) - 1) => 2 * Len(out.edges) >= Len(points)

\* two pairs of coincident points: each point is touched and two edges do it
C28_Witness ==
  /\ NearestCalled
  /\ Len(points) = 4
  /\ PointAt(points, 0).x = PointAt(points, 1).x /\ PointAt(points, 0).y = PointAt(points, 1).y
  /\ PointAt(points, 2).x = PointAt(points, 3).x /\ PointAt(points, 2).y = PointAt(points, 3).y
  /\ out.edges = << <<0, 1>>, <<2, 3>> >>


(***************************************************************************)
(* The rules of the Gabriel and relative-neighbourhood filters             *)
(***************************************************************************)
\* the third points of the candidate e
ThirdPoints(pts, e) == (0..(Len(pts) - 1)) \ {e[1], e[2]}

\* four times the squared distance of pk to the middle of a and b
FourTimesToMiddle(a, b, pk) ==
  LET dx2 == NSub(NScale(2, pk.x), NAdd(a.x, b.x))
      dy2 == NSub(NScale(2, pk.y), NAdd(a.y, b.y))
  IN NAdd(NMul(dx2, dx2), NMul(dy2, dy2))

\* sqrt(msq) + e < sqrt(absq), for squares msq, absq and a multiple e > 0 of
\* EPSILON: the whole parts of the squares decide when they differ, and
\* otherwise S = absq - msq - e^2 > 0 and 4 e^2 msq < S^2
RootLtMinus(msq, absq, e) ==
  LET e2 == NMul(e, e)
      S == NSub(NSub(absq, msq), e2)
  IN IF Coef(msq, 1) # Coef(absq, 1) THEN Coef(msq, 1) < Coef(absq, 1)
     ELSE NSign(S) > 0 /\ NLt(NScale(4, NMul(e2, msq)), NMul(S, S))

\* pk is inside the circle of diameter ab and more than EPSILON away from it
InsideBeyondEpsilon(a, b, pk) ==
  RootLtMinus(FourTimesToMiddle(a, b, pk), ExactSquared(a, b), NScale(2, EPSILON))

LeftSideFinite(a, b, pk) ==
  /\ ~Overflows(NAdd(a.x, b.x))
  /\ ~Overflows(NAdd(a.y, b.y))
  /\ NLe(FourTimesToMiddle(a, b, pk), Num(4 * MaxValue))

\* the squared distance of a and b is a finite number
RightSideFinite(a, b) ==
  /\ ~Overflows(NSub(a.x, b.x))
  /\ ~Overflows(NSub(a.y, b.y))
  /\ NLe(ExactSquared(a, b), Num(MaxValue))

\* the squared distance of pk to the middle is below the squared radius by
\* more than EPSILON; a left side of Infinity is below nothing, and a right
\* side of Infinity is above every finite left side
InsideBySquares(a, b, pk) ==
  /\ LeftSideFinite(a, b, pk)
  /\ RightSideFinite(a, b) =>
       NLt(NAdd(FourTimesToMiddle(a, b, pk), NScale(4, EPSILON)), ExactSquared(a, b))

NearerToBoth(pts, e, k) ==
  LET ab == distance(PointAt(pts, e[1]), PointAt(pts, e[2]))
      ak == distance(PointAt(pts, e[1]), PointAt(pts, k))
      bk == distance(PointAt(pts, e[2]), PointAt(pts, k))
  IN /\ ~ak.inf /\ (ab.inf \/ RootLtMinus(ak.sq, ab.sq, EPSILON))
     /\ ~bk.inf /\ (ab.inf \/ RootLtMinus(bk.sq, ab.sq, EPSILON))

SamePlace(p, q) == NEq(p.x, q.x) /\ NEq(p.y, q.y)

\* C27: the relative-neighbourhood filter keeps, in their order, the
\* candidates (a,b) for which no third point k has
\* max(dist(a,k), dist(b,k)) < dist(a,b) - EPSILON; a third point as far
\* from a or from b as they are from each other, or at the place of a or
\* of b, removes no edge
C27_RelativeRule ==
  ProxCalled =>
    /\ ~out.rng.threw
    /\ out.rng.edges =
         SelectSeq(candidateEdges,
                   LAMBDA e : ~\E k \in ThirdPoints(points, e) : NearerToBoth(points, e, k))
    /\ \A n \in 1..Len(candidateEdges) :
         LET e == candidateEdges[n]
             a == PointAt(points, e[1])
             b == PointAt(points, e[2])
         IN (\A k \in ThirdPoints(points, e) :
               \/ SamePlace(PointAt(points, k), a)
               \/ SamePlace(PointAt(points, k), b)
               \/ NLe(ExactSquared(a, b), ExactSquared(a, PointAt(points, k)))
               \/ NLe(ExactSquared(a, b), ExactSquared(b, PointAt(points, k))))
            => e \in SeqToSet(out.rng.edges)

\* the edge from (0,0) to (1,0) is kept with a third point at (0,0), and
\* the edge from (0,0) to (2,0) with a third point less than EPSILON inside
\* the border of its lune
C27_Witness ==
  /\ ProxCalled
  /\ candidateEdges = << <<0, 1>> >>
  /\ out.rng.edges = << <<0, 1>> >>
  /\ Len(points) = 3
  /\ SamePlace(PointAt(points, 0), PointAt(points, 2))
  /\ ~SamePlace(PointAt(points, 0), PointAt(points, 1))


(***************************************************************************)
(* Specification of the filters applied to the minimum spanning tree: one  *)
(* call of computeMinimumSpanningTreeEdges and one call of each filter on  *)
(* its result                                                              *)
(***************************************************************************)
MaxTreePoints == 3

TreeInputs ==
  {MkPoints(pos) : pos \in SeqsUpTo(ProxPositions, MaxTreePoints)}
  \cup {ProxSquare, SquareScenario} \cup ProxWide

InitTree ==
  /\ points \in TreeInputs
  /\ delaunay = NoDelaunay
  /\ alpha = Num(0)
  /\ mode = "mst"
  /\ candidateEdges = <<>>
  /\ called = "none"
  /\ out = NoResult
  /\ ui = NoUi
  /\ session = NoSession

CallFiltersOnTree ==
  /\ called = "none"
  /\ called' = "filtersOnTree"
  /\ candidateEdges' = computeMinimumSpanningTreeEdges(points)
  /\ out' = [gabriel |-> computeGabrielEdges(points, candidateEdges'),
             rng |-> computeRelativeNeighborhoodEdges(points, candidateEdges')]
  /\ UNCHANGED <<points, delaunay, alpha, mode, ui, session>>

NextTree == CallFiltersOnTree

SpecTree == InitTree /\ [][NextTree]_vars

TreeCalled == called = "filtersOnTree"

\* C29 as stated: for two points or more, each filter returns the edges of
\* the minimum spanning tree unchanged when they are its candidates
C29_AsStated ==
  (TreeCalled /\ Len(points) >= 2) =>
    /\ out.rng = Returned(candidateEdges)
    /\ out.gabriel = Returned(candidateEdges)

\* the squared distance of every two points is a finite number
AllSquaredFinite(pts) ==
  \A i, j \in 0..(Len(pts) - 1) : ~distanceSquared(PointAt(pts, i), PointAt(pts, j)).inf

\* C29: for two points or more, the relative-neighbourhood filter returns
\* the edges of the minimum spanning tree unchanged, and so does the
\* Gabriel filter when every squared distance between two of the points is
\* a finite number
C29_TreeSurvives ==
  (TreeCalled /\ Len(points) >= 2) =>
    /\ out.rng = Returned(candidateEdges)
    /\ AllSquaredFinite(points) => out.gabriel = Returned(candidateEdges)

\* the corners and the centre of a square: the four spokes of the tree are
\* kept by both filters
C29_Witness ==
  /\ TreeCalled
  /\ points = SquareScenario
  /\ Len(candidateEdges) = 4
  /\ out.rng = Returned(candidateEdges)
  /\ out.gabriel = Returned(candidateEdges)


(***************************************************************************)
(* The discrete Voronoi raster of voronoi-bruteforce mode                  *)
(***************************************************************************)
\* dx * dx + dy * dy from the pixel (x, y) to the seed of index i
PixelDistSquared(pts, i, x, y) ==
  LET dx == NSub(Num(x), PointAt(pts, i).x)
      dy == NSub(Num(y), PointAt(pts, i).y)
      sum == NAdd(NMul(dx, dx), NMul(dy, dy))
  IN IF Overflows(dx) \/ Overflows(dy) \/ NLt(Num(MaxValue), sum)
     THEN POSITIVE_INFINITY ELSE Finite(sum)

\* a seed loop in which a seed as near as the closest so far replaces it
ClosestFromLastWins(pts, x, y, i, closestIndex, closestDistance) ==
  LET scan[k \in 0..Len(pts)] ==
        IF k = 0 THEN [index |-> closestIndex, d |-> closestDistance]
        ELSE LET before == scan[k - 1]
                 distSquared == PixelDistSquared(pts, k - 1, x, y)
             IN IF k - 1 < i THEN before
                ELSE IF DLe(distSquared, before.d)
                THEN [index |-> k - 1, d |-> distSquared]
                ELSE before
  IN scan[Len(pts)].index

\* the loop over the seeds from index i on; gives closestIndex at its end
RECURSIVE ClosestFrom(_, _, _, _, _, _)
ClosestFrom(pts, x, y, i, closestIndex, closestDistance) ==
  IF i >= Len(pts) THEN closestIndex
  ELSE LET distSquared == PixelDistSquared(pts, i, x, y)
       IN IF DLt(distSquared, closestDistance)
          THEN ClosestFrom(pts, x, y, i + 1, i, distSquared)
          ELSE ClosestFrom(pts, x, y, i + 1, closestIndex, closestDistance)

\* closestIndex of a pixel: the loop starts at index 0 with Number.MAX_VALUE
ClosestIndex(pts, x, y) ==
  ClosestFrom(pts, x, y, 0, 0, Finite(Num(MaxValue)))

\* the pixels in the order of the two loops: rows from the top, columns from
\* the left in each row
PixelScan(width, height) ==
  [k \in 1..(width * height) |-> <<(k - 1) % width, (k - 1) \div width>>]

\* the pixel loops from the k-th pixel of the scan on; pushing into a cell
\* that does not exist is a TypeError
RECURSIVE RasterFrom(_, _, _, _, _)
RasterFrom(pts, width, height, k, cells) ==
  IF k >= width * height THEN [threw |-> FALSE, cells |-> cells]
  ELSE LET pixel == PixelScan(width, height)[k + 1]
           closestIndex == ClosestIndex(pts, pixel[1], pixel[2])
       IN IF closestIndex >= Len(cells)
          THEN [threw |-> TRUE, cells |-> <<>>]
          ELSE RasterFrom(pts, width, height, k + 1,
                          [cells EXCEPT ![closestIndex + 1] = Append(@, pixel)])

computeVoronoiBruteForce(pts, width, height) ==
  RasterFrom(pts, width, height, 0, [i \in 1..Len(pts) |-> <<>>])

\* computeDerivedStructures up to the end of its voronoi-bruteforce branch
computeDerivedStructuresBruteForce(pts, width, height) ==
  IF Len(pts) = 0 THEN Bundle(<<>>, <<>>, <<>>)
  ELSE LET cells == computeVoronoiBruteForce(pts, width, height)
       IN IF cells.threw THEN BundleThrew
          ELSE Bundle(cells.cells, <<>>, <<>>)

(***************************************************************************)
(* Specification of the raster: one call of computeDerivedStructures in    *)
(* voronoi-bruteforce mode on a small canvas; ui carries the size          *)
(***************************************************************************)
MaxRasterWidth == 3
MaxRasterHeight == 2
MaxRasterPoints == 3

\* seeds on pixels, between pixels, off the canvas, and far away; the squared
\* distance from (30, 10) to the pixel (0, 0) is MaxValue itself
RasterPositions ==
  {<<Num(0), Num(0)>>, <<Num(2), Num(0)>>, <<Num(1), Num(1)>>,
   <<NAdd(Num(1), EPSILON), Num(0)>>, <<Num(0 - 1), Num(1)>>,
   <<Num(30), Num(10)>>, <<Num(FarCoord), Num(0)>>}

RasterInputs == {MkPoints(pos) : pos \in SeqsUpTo(RasterPositions, MaxRasterPoints)}

RasterUi(width, height) ==
  [mounted |-> FALSE, size |-> [width |-> width, height |-> height]]

InitRaster ==
  /\ points \in RasterInputs
  /\ delaunay = NoDelaunay
  /\ alpha = Num(0)
  /\ mode = "voronoi-bruteforce"
  /\ candidateEdges = <<>>
  /\ called = "none"
  /\ out = NoResult
  /\ \E width \in 0..MaxRasterWidth, height \in 0..MaxRasterHeight :
       ui = RasterUi(width, height)
  /\ session = NoSession

CallBruteForce ==
  /\ called = "none"
  /\ called' = "computeDerivedStructures"
  /\ out' = computeDerivedStructuresBruteForce(points, ui.size.width, ui.size.height)
  /\ UNCHANGED <<points, delaunay, alpha, mode, candidateEdges, ui, session>>

NextRaster == CallBruteForce

SpecRaster == InitRaster /\ [][NextRaster]_vars

RasterCalled == called = "computeDerivedStructures" /\ mode = "voronoi-bruteforce"

\* the pixels of the canvas: whole x in 0..width-1, whole y in 0..height-1
GridPixels == {<<x, y>> : x \in 0..(ui.size.width - 1), y \in 0..(ui.size.height - 1)}

\* the number of times a pixel is listed in a group
TimesIn(group, pixel) == Cardinality({k \in 1..Len(group) : group[k] = pixel})

RECURSIVE SumOfSizes(_)
SumOfSizes(groups) ==
  IF groups = <<>> THEN 0 ELSE Len(Head(groups)) + SumOfSizes(Tail(groups))

\* one group per point, and every pixel of the grid in exactly one group, once
PartitionsGrid(cells) ==
  /\ Len(cells) = Len(points)
  /\ \A c \in 1..Len(cells) : \A k \in 1..Len(cells[c]) : cells[c][k] \in GridPixels
  /\ \A pixel \in GridPixels :
       \E c \in 1..Len(cells) :
         /\ TimesIn(cells[c], pixel) = 1
         /\ \A e \in 1..Len(cells) : e # c => TimesIn(cells[e], pixel) = 0
  /\ SumOfSizes(cells) = ui.size.width * ui.size.height

\* the lowest index among the seeds no other seed is nearer than, by the
\* squared distances as computed
SmallestSquared(pixel) ==
  LET n == Len(points)
      best == {i \in 0..(n - 1) :
                 \A j \in 0..(n - 1) :
                   DLe(PixelDistSquared(points, i, pixel[1], pixel[2]),
                       PixelDistSquared(points, j, pixel[1], pixel[2]))}
  IN CHOOSE i \in best : \A j \in best : i <= j

GroupOf(cells, pixel) == CHOOSE c \in 0..(Len(cells) - 1) : TimesIn(cells[c + 1], pixel) = 1

\* C30 as stated: in voronoi-bruteforce mode with n >= 1 points there is one
\* group per point, the groups partition the pixel grid, and every pixel is in
\* the group of the seed with the smallest squared distance, lowest index first
C30_AsStated ==
  (RasterCalled /\ Len(points) >= 1) =>
    /\ ~out.threw
    /\ PartitionsGrid(out.voronoiCells)
    /\ \A pixel \in GridPixels :
         GroupOf(out.voronoiCells, pixel) = SmallestSquared(pixel)

\* some seed's squared distance to the pixel is below Number.MAX_VALUE
BelowMaxValue(pixel) ==
  \E i \in 0..(Len(points) - 1) :
    DLt(PixelDistSquared(points, i, pixel[1], pixel[2]), Finite(Num(MaxValue)))

\* C30: in voronoi-bruteforce mode with n >= 1 points there is one group per
\* point and the groups partition the pixel grid; a pixel that has a seed at a
\* squared distance below Number.MAX_VALUE is in the group of the seed with
\* the smallest squared distance, lowest index first, and any other pixel is
\* in group 0
C30_NearestSeedRaster ==
  (RasterCalled /\ Len(points) >= 1) =>
    /\ ~out.threw
    /\ PartitionsGrid(out.voronoiCells)
    /\ \A pixel \in GridPixels :
         GroupOf(out.voronoiCells, pixel) =
           IF BelowMaxValue(pixel) THEN SmallestSquared(pixel) ELSE 0

\* three seeds on a 3 x 2 canvas: the pixel (1, 0) is as near to seed 0 as to
\* seed 1 and goes to seed 0, and seed 2 gets the pixel it sits on
C30_Witness ==
  /\ RasterCalled
  /\ ui.size = [width |-> 3, height |-> 2]
  /\ points = MkPoints(<< <<Num(0), Num(0)>>, <<Num(2), Num(0)>>, <<Num(1), Num(1)>> >>)
  /\ out.voronoiCells = << << <<0, 0>>, <<1, 0>>, <<0, 1>> >>,
                           << <<2, 0>>, <<2, 1>> >>,
                           << <<1, 1>> >> >>

=============================================================================
